---- MODULE Spec2Model ----
(***************************************************************************)
(* A model of the Piotr editor core: nodes and their state, the surface's  *)
(* node sequence, the command factory (UpdateNode / InsertNode /           *)
(* RemoveNode / Compound), the text transforms (split, merge, slice,       *)
(* removeRange), the undo/redo History and the selection snapshots taken   *)
(* by Editor.execute.                                                      *)
(*                                                                         *)
(* A JavaScript exception is modelled by the field `err` of the world      *)
(* record: once it is set every later step of the same handler is skipped  *)
(* (the exception propagates), and whatever had been mutated before the    *)
(* throw stays mutated.                                                    *)
(***************************************************************************)
EXTENDS Integers, Sequences, FiniteSets, TLC

\* ------------------------------------------------------------------ bounds
\* Node instances ever constructed in one behaviour, and entries of the
\* surface's node sequence.
MaxNodes == 4
\* Nodes of the initial document.
MaxInitNodes == 2
\* Length of a text of the initial document when keys are pressed.
MaxLen == 1
\* Length of a text of the initial document when transforms are called.
MaxTextLen == 3
\* Commands pushed to the History in one behaviour.
MaxPush == 2
\* Commands pushed in one behaviour of the longer histories.
MaxPushH == 3
\* Nodes and length of a text of the initial document when removeRange is
\* called, and the calls of removeRange in one behaviour.
MaxRangeNodes == 3
MaxRangeLen == 2
MaxPushR == 1

\* The calls of the primitives in one behaviour.
MaxPushP == 2

\* Length of a text of the initial document when keys are pressed at a caret.
MaxCaretLen == 2

\* Pastes in one behaviour.
MaxPushV == 1
\* Commands pushed when every handler is run.
MaxPushN == 2

\* Input events reconciled in one behaviour.
MaxPushI == 2

\* Node records of a JSON document that is loaded.
MaxJsonNodes == 2

\* Commands pushed in one behaviour when keys without a handler are pressed.
MaxPushK == 1

\* The characters of the initial texts, in the order they are used.
Alphabet == <<"a", "b", "c", "d", "e", "f", "g", "h", "i", "j", "k", "l">>

VARIABLES
  nodes,    \* Surface#nodes: the sequence of node instances (ids)
  heap,     \* the node instances: id -> fields
  next,     \* number of node instances constructed so far
  docsel,   \* the host's native selection (document.getSelection())
  sel,      \* Selection#state, the model-level selection
  stack,    \* History#stack: the commands with their selection snapshots
  cursor,   \* History#cursor
  pushes,   \* number of History.push calls so far; numbers the commands
  dropped,  \* numbers of the commands that a push erased from the stack
  log,      \* execute()/cancel() calls on primitive commands in the last step
  err,      \* the exception the last step ended with, or "none"
  button,   \* HeadingButton#state: 0 disabled, 1 heading, 2 other text node
  reg,      \* the surfaces: the registry, Selection#state and the trackers
  selected, \* the instances that got selectionStart() and no selectionEnd() since
  last,     \* the last step taken and what it returned
  trip      \* how far an undo-all / redo-all round trip has got

vars == <<nodes, heap, next, docsel, sel, stack, cursor, pushes, dropped, log, err,
          button, reg, selected, last, trip>>

\* Slots of the heap. A handler run constructs at most three instances (two
\* replacement paragraphs and one new node); a step is taken only if it
\* stays within MaxNodes.
NodeIds == 1..(MaxNodes + 3)

\* `undefined` where a node instance is expected
NoNode == 0

\* ------------------------------------------------------------- collections
Min(a, b) == IF a < b THEN a ELSE b
Max(a, b) == IF a > b THEN a ELSE b

\* A splice that appends wherever it is asked to insert.
SpliceIn_end(s, pos, x) == Append(s, x)

\* Array.prototype.splice(pos, 0, x): positions past the end append.
SpliceIn(s, pos, x) ==
  LET p == Min(Max(pos, 0), Len(s))
  IN SubSeq(s, 1, p) \o <<x>> \o SubSeq(s, p + 1, Len(s))

\* Array.prototype.splice(pos, 1): nothing is removed past the end.
SpliceOut(s, pos) ==
  IF pos >= 0 /\ pos < Len(s)
    THEN SubSeq(s, 1, pos) \o SubSeq(s, pos + 2, Len(s))
    ELSE s

\* String.prototype.substring(a, b): both ends are clamped to 0..length and
\* swapped when a > b.
Substring(t, a, b) ==
  LET ca == Min(Max(a, 0), Len(t))
      cb == Min(Max(b, 0), Len(t))
  IN SubSeq(t, Min(ca, cb) + 1, Max(ca, cb))

\* A substring(a) that starts one character late.
SubstringFrom_late(t, a) == Substring(t, a + 1, Len(t))

\* String.prototype.substring(a): up to the end of the string.
SubstringFrom(t, a) == Substring(t, a, Len(t))

\* arr[i] with a 0-based index; `undefined` outside the array.
At(s, i) == IF i >= 0 /\ i < Len(s) THEN s[i + 1] ELSE NoNode

\* ------------------------------------------------------------------- nodes
TextVariants == {"paragraph", "heading"}

\* Node#state of a text node and of an isolated node
TextState(t) == [text |-> t]
IsolatedState == [data |-> <<>>]
NoState == [none |-> <<>>]

\* A slot of the heap that holds no instance yet.
Unborn ==
  [variant |-> "none", level |-> 0, state |-> NoState,
   surface |-> FALSE, position |-> -1]

\* new ParagraphNode, new HeadingNode(level), new <an isolated node class>:
\* the Node constructor leaves the node unattached at position -1.
NewNode(variant, level) ==
  [variant |-> variant, level |-> level,
   state |-> IF variant \in TextVariants THEN TextState(<<>>) ELSE IsolatedState,
   surface |-> FALSE, position |-> -1]

\* node instanceof TextNode
IsTextNode(w, n) == n # NoNode /\ w.heap[n].variant \in TextVariants

\* Node#getLength
getLength(w, n) ==
  IF IsTextNode(w, n) THEN Len(w.heap[n].state.text) ELSE 0

\* Node#copyState: Object.assign({}, this.state)
copyState(w, n) == w.heap[n].state

\* Object.assign(target, update): the keys of update overwrite or extend target.
ObjectAssign(target, update) ==
  [k \in (DOMAIN target) \cup (DOMAIN update) |->
     IF k \in DOMAIN update THEN update[k] ELSE target[k]]

\* Allocates the next instance; the world is unchanged when none is left
\* (the guards of the actions keep that from happening).
Construct(w, variant, level) ==
  [w EXCEPT !.next = w.next + 1,
            !.heap = [w.heap EXCEPT ![w.next + 1] = NewNode(variant, level)]]

\* A clone of a heading that is a heading of the first level.
clone_level1(w, n) ==
  Construct(w, w.heap[n].variant, IF w.heap[n].variant = "heading" THEN 1 ELSE 0)

\* A clone that is a paragraph whatever the node is.
clone_paragraph(w, n) == Construct(w, "paragraph", 0)

\* TextNode#clone / HeadingNode#clone: a new empty instance of the same
\* variant; a heading keeps its level.
clone(w, n) ==
  Construct(w, w.heap[n].variant,
            IF w.heap[n].variant = "heading" THEN w.heap[n].level ELSE 0)

\* ---------------------------------------------------- exceptions and logs
Throw(w, e) == IF w.err = "none" THEN [w EXCEPT !.err = e] ELSE w
Failed(w) == w.err # "none"
Logged(w, call, cmd) ==
  [w EXCEPT !.log = Append(w.log,
     [call |-> call, type |-> cmd.type, node |-> cmd.node, pos |-> cmd.pos])]

\* ------------------------------------------- the host's boundary points
\* A boundary point of the host: inside the Text child of a node's element
\* ("text"), on a node's root element ("dom"), or on the surface's root
\* element between two node elements ("surface", offset = child index).
BP(container, n, offset) == [container |-> container, node |-> n, offset |-> offset]
NoBP == BP("none", NoNode, 0)
NoDocSel == [start |-> NoBP, end |-> NoBP]

\* Node#clear followed by appendChild in TextNode#render: the children of the
\* node's element are replaced, so the host moves every boundary point that
\* was inside them to the start of the element.
BPAfterRender(bp, n) ==
  IF bp.node = n /\ bp.container \in {"text", "dom"} THEN BP("dom", n, 0) ELSE bp

\* Surface#dom.removeChild(node.dom) for the child at index idx.
BPAfterRemoveChild(bp, n, idx) ==
  IF bp.node = n /\ bp.container \in {"text", "dom"} THEN BP("surface", NoNode, idx)
  ELSE IF bp.container = "surface" /\ bp.offset > idx
    THEN BP("surface", NoNode, bp.offset - 1)
  ELSE bp

\* Surface#dom.insertBefore / appendChild of a child at index idx.
BPAfterInsertChild(bp, idx) ==
  IF bp.container = "surface" /\ bp.offset > idx
    THEN BP("surface", NoNode, bp.offset + 1)
    ELSE bp

\* A conversion that takes the offset after the last character for one that
\* is not in the text.
offsetToBoundaryPoint_strict(w, n, offset) ==
  IF ~IsTextNode(w, n) THEN BP("dom", n, 0)
  ELSE IF getLength(w, n) = 0 THEN BP("dom", n, 0)
  ELSE IF offset >= 0 /\ offset < getLength(w, n) THEN BP("text", n, offset)
  ELSE BP("throws", n, offset)

\* TextNode#offsetToBoundaryPoint / IsolatedNode#offsetToBoundaryPoint.
\* "throws" is the 'Boundary point not found...' error.
offsetToBoundaryPoint(w, n, offset) ==
  IF ~IsTextNode(w, n) THEN BP("dom", n, 0)
  ELSE IF getLength(w, n) = 0 THEN BP("dom", n, 0)
  ELSE IF offset >= 0 /\ offset <= getLength(w, n) THEN BP("text", n, offset)
  ELSE BP("throws", n, offset)

\* TextNode#boundaryPointToOffset / IsolatedNode#boundaryPointToOffset for a
\* boundary point inside node n. A text node's element has one child (the
\* Text node, or the <br> of an empty node).
boundaryPointToOffset(w, n, bp) ==
  IF ~IsTextNode(w, n) THEN 0
  ELSE IF bp.container = "text" THEN bp.offset
  ELSE IF bp.offset = 1 THEN getLength(w, n)
  ELSE 0

\* ------------------------------------------------------ node and surface
\* TextNode#render on an attached node; Node#clear reads this.dom.firstChild,
\* which throws on a detached node (dom === null). `renders` lists the calls.
render(w, n) ==
  IF Failed(w) THEN w
  ELSE IF ~w.heap[n].surface
    THEN Throw([w EXCEPT !.renders = Append(w.renders, n)], "TypeError")
  ELSE [w EXCEPT !.docsel = [start |-> BPAfterRender(w.docsel.start, n),
                             end |-> BPAfterRender(w.docsel.end, n)],
                 !.renders = Append(w.renders, n)]

\* Node#updateState: Object.assign(this.state, update)
updateState(w, n, update) ==
  IF Failed(w) THEN w
  ELSE [w EXCEPT !.heap[n].state = ObjectAssign(w.heap[n].state, update)]

\* Node#attach: a fresh root element is created and rendered.
attach(w, n) == [w EXCEPT !.heap[n].surface = TRUE]

\* Node#detach
detach(w, n) == [w EXCEPT !.heap[n].surface = FALSE]

\* Surface#updatePositions: every node of the sequence is told its index.
updatePositions(w) ==
  [w EXCEPT !.heap =
     [n \in NodeIds |->
        IF \E i \in 1..Len(w.nodes) : w.nodes[i] = n
          THEN [w.heap[n] EXCEPT !.position =
                  (CHOOSE i \in 1..Len(w.nodes) :
                     /\ w.nodes[i] = n
                     /\ \A j \in 1..Len(w.nodes) : w.nodes[j] = n => j <= i) - 1]
          ELSE w.heap[n]]]

\* Surface#insertNode(node, pos)
Surface_insertNode(w, n, pos) ==
  IF Failed(w) THEN w
  ELSE IF n = NoNode THEN Throw(w, "TypeError")        \* undefined.attach
  ELSE IF pos < 0 \/ pos > Len(w.nodes)
    THEN Throw(attach(w, n), "TypeError")              \* this.nodes[pos].dom
  ELSE LET a == attach(w, n)
           d == [a EXCEPT !.docsel =
                   [start |-> BPAfterInsertChild(a.docsel.start, pos),
                    end |-> BPAfterInsertChild(a.docsel.end, pos)]]
       IN updatePositions([d EXCEPT !.nodes = SpliceIn(d.nodes, pos, n)])

\* Surface#removeNode(id)
Surface_removeNode(w, id) ==
  IF Failed(w) THEN w
  ELSE LET n == At(w.nodes, id)
           s == [w EXCEPT !.nodes = SpliceOut(w.nodes, id)]
       IN IF n = NoNode THEN Throw(s, "TypeError")     \* undefined.dom
          ELSE IF ~s.heap[n].surface THEN Throw(s, "TypeError")
          ELSE updatePositions(detach(
                 [s EXCEPT !.docsel =
                    [start |-> BPAfterRemoveChild(s.docsel.start, n, id),
                     end |-> BPAfterRemoveChild(s.docsel.end, n, id)]],
                 n))

\* ---------------------------------------------------------- the commands
\* A Piotr.Command. `commands` holds the sub-commands of a "Compound";
\* "Undefined" stands for the value `undefined` sitting where a command is
\* expected.
Cmd(type, n, pos, update, oldState, rerender, commands) ==
  [type |-> type, node |-> n, pos |-> pos, update |-> update,
   oldState |-> oldState, rerender |-> rerender, hasExecuted |-> FALSE,
   commands |-> commands]

Undefined == Cmd("Undefined", NoNode, -1, NoState, NoState, FALSE, <<>>)

\* execute() of UpdateNode, InsertNode and RemoveNode; calling a method of
\* `undefined` throws.
ExecutePrimitive(cmd, w) ==
  IF cmd.type = "UpdateNode" THEN
    LET u == updateState(Logged(w, "execute", cmd), cmd.node, cmd.update)
    IN IF cmd.rerender \/ cmd.hasExecuted THEN render(u, cmd.node) ELSE u
  ELSE IF cmd.type = "InsertNode" THEN
    Surface_insertNode(Logged(w, "execute", cmd), cmd.node, cmd.pos)
  ELSE IF cmd.type = "RemoveNode" THEN
    Surface_removeNode(Logged(w, "execute", cmd), cmd.pos)
  ELSE Throw(w, "TypeError")

\* cancel() of UpdateNode, InsertNode and RemoveNode
CancelPrimitive(cmd, w) ==
  IF cmd.type = "UpdateNode" THEN
    render(updateState(Logged(w, "cancel", cmd), cmd.node, cmd.oldState), cmd.node)
  ELSE IF cmd.type = "InsertNode" THEN
    Surface_removeNode(Logged(w, "cancel", cmd), cmd.pos)
  ELSE IF cmd.type = "RemoveNode" THEN
    Surface_insertNode(Logged(w, "cancel", cmd), cmd.node, cmd.pos)
  ELSE Throw(w, "TypeError")

\* The order in which Compound.execute visits its n sub-commands:
\* for(i = 0; i < cmds.length; i++)
ExecuteOrder(n) == [j \in 1..n |-> j]

\* The order in which Compound.cancel visits them:
\* for(i = cmds.length - 1; i >= 0; i--)
CancelOrder(n) == [j \in 1..n |-> n + 1 - j]

RECURSIVE Execute(_, _), ExecuteFrom(_, _, _, _), Cancel(_, _), CancelFrom(_, _, _, _)

\* The loop of Compound.execute from the j-th visit on; an exception ends it.
ExecuteFrom(cmds, order, j, w) ==
  IF j > Len(order) \/ Failed(w) THEN w
  ELSE ExecuteFrom(cmds, order, j + 1, Execute(cmds[order[j]], w))

\* The loop of Compound.cancel from the j-th visit on.
CancelFrom(cmds, order, j, w) ==
  IF j > Len(order) \/ Failed(w) THEN w
  ELSE CancelFrom(cmds, order, j + 1, Cancel(cmds[order[j]], w))

\* cmd.execute()
Execute(cmd, w) ==
  IF Failed(w) THEN w
  ELSE IF cmd.type = "Compound"
    THEN ExecuteFrom(cmd.commands, ExecuteOrder(Len(cmd.commands)), 1, w)
  ELSE ExecutePrimitive(cmd, w)

\* cmd.cancel()
Cancel(cmd, w) ==
  IF Failed(w) THEN w
  ELSE IF cmd.type = "Compound"
    THEN CancelFrom(cmd.commands, CancelOrder(Len(cmd.commands)), 1, w)
  ELSE CancelPrimitive(cmd, w)

\* What a factory or a transform returns: the command and the world after
\* the command's first execution.
Made(cmd, w) == [cmd |-> cmd, w |-> w]

\* A command that never notes that it has run.
Executed_never(cmd) == cmd

\* The command once its first execute() has run (this.hasExecuted = true).
Executed(cmd) == [cmd EXCEPT !.hasExecuted = TRUE]

\* CF.compose(...cmds) / CF.composeArray(cmds): nothing is executed.
compose(cmds) == Cmd("Compound", NoNode, -1, NoState, NoState, FALSE, cmds)

\* CF.compose(cmd1, cmd2) where m2 is what the making of cmd2 returned.
composePair(cmd1, m2) == Made(compose(<<cmd1, m2.cmd>>), m2.w)

\* CF.updateNode(node, update, rerender = true)
updateNode(w, n, update, rerender) ==
  LET cmd == Cmd("UpdateNode", n, -1, update, copyState(w, n), rerender, <<>>)
  IN Made(Executed(cmd), Execute(cmd, w))

\* An insertNode that leaves its first execution to the caller.
CF_insertNode_lazy(w, n, pos) ==
  Made(Cmd("InsertNode", n, pos, NoState, NoState, FALSE, <<>>), w)

\* CF.insertNode(surface, node, pos)
CF_insertNode(w, n, pos) ==
  LET cmd == Cmd("InsertNode", n, pos, NoState, NoState, FALSE, <<>>)
  IN Made(cmd, Execute(cmd, w))

\* CF.removeNode(surface, id): the node at id is captured at creation.
CF_removeNode(w, id) ==
  LET cmd == Cmd("RemoveNode", At(w.nodes, id), id, NoState, NoState, FALSE, <<>>)
  IN Made(cmd, Execute(cmd, w))

\* --------------------------------------------------------- the transforms
\* state.text; a state without that key yields `undefined`, which string
\* concatenation turns into the word "undefined".
TextOf(state) == IF "text" \in DOMAIN state THEN state.text ELSE <<"undefined">>

\* The end of splitTextNode: the InsertNode of the new node after the
\* UpdateNode m1 of the old one, and the Compound of the two.
splitTextNode_insert(m1, newnode, pos) ==
  composePair(m1.cmd, CF_insertNode(m1.w, newnode, pos))

\* A split that gives the clone the text before the offset and leaves the
\* node the text after it.
splitTextNode_texts_swapped(c, node, nodeid, text1, text2) ==
  splitTextNode_insert(
    updateNode([c EXCEPT !.heap[c.next].state =
                  ObjectAssign(c.heap[c.next].state, TextState(text1))],
               node, TextState(text2), TRUE),
    c.next, nodeid + 1)

\* The middle of splitTextNode, c being the world after node.clone(): the
\* clone gets the text after the offset, the node the text before it.
splitTextNode_texts(c, node, nodeid, text1, text2) ==
  splitTextNode_insert(
    updateNode([c EXCEPT !.heap[c.next].state =
                  ObjectAssign(c.heap[c.next].state, TextState(text2))],
               node, TextState(text1), TRUE),
    c.next, nodeid + 1)

\* Transforms.splitTextNode(surface, nodeid, offset)
splitTextNode(w, nodeid, offset) ==
  LET node == At(w.nodes, nodeid) IN
  IF Failed(w) \/ node = NoNode \/ ~IsTextNode(w, node)
    THEN Made(Undefined, Throw(w, "TypeError"))
  ELSE splitTextNode_texts(clone(w, node), node, nodeid,
                            Substring(TextOf(w.heap[node].state), 0, offset),
                            SubstringFrom(TextOf(w.heap[node].state), offset))

\* A removeTextSlice that drops everything from start on.
removeTextSlice_toEnd(w, node, start, end) ==
  IF Failed(w) \/ node = NoNode \/ ~IsTextNode(w, node)
    THEN Made(Undefined, Throw(w, "TypeError"))
  ELSE updateNode(w, node,
                  TextState(Substring(TextOf(w.heap[node].state), 0, start)), TRUE)

\* Transforms.removeTextSlice(node, start, end)
removeTextSlice(w, node, start, end) ==
  IF Failed(w) \/ node = NoNode \/ ~IsTextNode(w, node)
    THEN Made(Undefined, Throw(w, "TypeError"))
  ELSE
    LET text == Substring(TextOf(w.heap[node].state), 0, start)
                  \o SubstringFrom(TextOf(w.heap[node].state), end)
    IN updateNode(w, node, TextState(text), TRUE)

\* An appendText that puts the appended text in front.
appendText_front(w, node, appendState) ==
  IF Failed(w) \/ node = NoNode THEN Made(Undefined, Throw(w, "TypeError"))
  ELSE updateNode(w, node,
                  TextState(TextOf(appendState) \o TextOf(w.heap[node].state)), TRUE)

\* Transforms.appendText(node, appendState)
appendText(w, node, appendState) ==
  IF Failed(w) \/ node = NoNode THEN Made(Undefined, Throw(w, "TypeError"))
  ELSE
    LET text == TextOf(w.heap[node].state) \o TextOf(appendState)
    IN updateNode(w, node, TextState(text), TRUE)

\* The end of mergeTextNodes: the RemoveNode of the second node after the
\* UpdateNode m1 of the first, and the Compound of the two.
mergeTextNodes_remove(m1, pos) ==
  composePair(m1.cmd, CF_removeNode(m1.w, pos))

\* Transforms.mergeTextNodes(surface, pos)
mergeTextNodes(w, pos) ==
  IF Failed(w) \/ At(w.nodes, pos + 1) = NoNode
    THEN Made(Undefined, Throw(w, "TypeError"))
  ELSE mergeTextNodes_remove(
         appendText(w, At(w.nodes, pos), w.heap[At(w.nodes, pos + 1)].state),
         pos + 1)

\* ----------------------------------------------------------- selection
\* A selection state / Piotr.Range: indices and offsets are 0-based.
Range(inside, caret, si, so, ei, eo) ==
  [inside |-> inside, caret |-> caret, startNodeIndex |-> si,
   startOffset |-> so, endNodeIndex |-> ei, endOffset |-> eo, surface |-> TRUE]

\* The state a SurfaceSelection starts with.
InitialSel == [Range(FALSE, FALSE, -1, -1, -1, -1) EXCEPT !.surface = FALSE]

\* cmd.selBefore / cmd.selAfter before Editor.execute has assigned them
Unset == [inside |-> FALSE, caret |-> FALSE, startNodeIndex |-> -2,
          startOffset |-> -2, endNodeIndex |-> -2, endOffset |-> -2,
          surface |-> FALSE]

\* Range.isCollapsed
isCollapsed(r) ==
  r.caret \/ (r.startNodeIndex = r.endNodeIndex /\ r.startOffset = r.endOffset)

\* Range.isInSameNode
isInSameNode(r) == r.startNodeIndex = r.endNodeIndex

\* Range.startNode
startNode(w, r) == At(w.nodes, r.startNodeIndex)

\* SurfaceSelection#set(startNodeIndex, startOffset[, endNodeIndex, endOffset])
\* hasEnd tells whether the two optional arguments were given.
SurfaceSelection_set(w, si, so, hasEnd, ei, eo) ==
  IF Failed(w) THEN w
  ELSE IF At(w.nodes, si) = NoNode THEN Throw(w, "TypeError")
  ELSE LET sbp == offsetToBoundaryPoint(w, At(w.nodes, si), so) IN
    IF sbp.container = "throws" THEN Throw(w, "Error")
    ELSE IF ~hasEnd THEN [w EXCEPT !.docsel = [start |-> sbp, end |-> sbp]]
    ELSE IF At(w.nodes, ei) = NoNode THEN Throw(w, "TypeError")
    ELSE LET ebp == offsetToBoundaryPoint(w, At(w.nodes, ei), eo) IN
      IF ebp.container = "throws" THEN Throw(w, "Error")
      ELSE [w EXCEPT !.docsel = [start |-> sbp, end |-> ebp]]

\* Index of the node whose element contains the boundary point, as the loop
\* of SurfaceSelection#update finds it (the last match); -1 when none does.
IndexOfNode(w, n) ==
  IF \E i \in 1..Len(w.nodes) : w.nodes[i] = n
    THEN (CHOOSE i \in 1..Len(w.nodes) :
            /\ w.nodes[i] = n
            /\ \A j \in 1..Len(w.nodes) : w.nodes[j] = n => j <= i) - 1
    ELSE -1

\* A caret flag that compares the offsets only.
recomputedCaret_offsets(sid, sOffset, eid, eOffset) == sOffset = eOffset

\* The last line of SurfaceSelection#update: the caret flag is computed
\* again from the model's indices and offsets.
recomputedCaret(sid, sOffset, eid, eOffset) == sOffset = eOffset /\ sid = eid

\* SurfaceSelection#update on a selection that lies inside node elements.
CleanUpdate(w) ==
  LET sid == IndexOfNode(w, w.docsel.start.node)
      collapsed == w.docsel.start = w.docsel.end
      eid == IF collapsed THEN sid ELSE IndexOfNode(w, w.docsel.end.node)
  IN IF Failed(w) THEN w
     ELSE IF sid < 0 \/ eid < 0
       THEN Throw([w EXCEPT !.sel.inside = TRUE, !.sel.caret = collapsed,
                            !.sel.surface = TRUE],
                  "TypeError")
     ELSE LET sOffset == boundaryPointToOffset(w, w.docsel.start.node, w.docsel.start)
              eOffset == IF collapsed THEN sOffset
                         ELSE boundaryPointToOffset(w, w.docsel.end.node, w.docsel.end)
          IN [w EXCEPT !.sel =
                Range(TRUE, recomputedCaret(sid, sOffset, eid, eOffset),
                      sid, sOffset, eid, eOffset)]

\* SurfaceSelection#isInSelection / #wasInSelection of a state: inside, and
\* Range.containsNode.
isInSelection(state, index) ==
  state.inside /\ index >= state.startNodeIndex /\ index <= state.endNodeIndex

\* The loop of SurfaceSelection#notify from index i on: a node that was in
\* the previous state's range and is not in the current one gets
\* selectionEnd(), a node in the current range selectionStart().
RECURSIVE notifyFrom(_, _, _)
notifyFrom(w, prev, i) ==
  IF i >= Len(w.nodes) THEN w
  ELSE notifyFrom(
         [w EXCEPT !.selected =
            IF isInSelection(w.sel, i) THEN @ \cup {w.nodes[i + 1]}
            ELSE IF isInSelection(prev, i) THEN @ \ {w.nodes[i + 1]}
            ELSE @],
         prev, i + 1)

\* SurfaceSelection#notify at the end of handle() and of end(); prev is
\* SurfaceSelection#previousState. An update that throws does not get there.
SurfaceSelection_notify(w, prev) ==
  IF Failed(w) THEN w ELSE notifyFrom(w, prev, 0)

\* HeadingButton#update, the toolbar's subscriber to selection updates: the
\* button is disabled unless the selection lies in one text node.
HeadingButton_update(w) ==
  IF Failed(w) THEN w
  ELSE [w EXCEPT !.button =
          IF ~w.sel.inside \/ ~isInSameNode(w.sel)
             \/ ~IsTextNode(w, startNode(w, w.sel)) THEN 0
          ELSE IF w.heap[startNode(w, w.sel)].variant = "heading" THEN 1 ELSE 2]

\* Selection#update -> SurfaceSelection#handle -> SurfaceSelection#update.
\* A boundary point on the surface's own element is "dirty": the selection
\* is reset to offset 0 of a neighbouring node and the update starts over.
\* The subscribers are called last, and only for a selection inside.
Selection_update(w) ==
  IF Failed(w) THEN w
  ELSE IF w.docsel = NoDocSel
    THEN SurfaceSelection_notify([w EXCEPT !.sel.inside = FALSE], w.sel)
  ELSE IF w.docsel.start.container = "surface" \/ w.docsel.end.container = "surface"
    THEN LET nodePos == IF w.docsel.end.offset = 0 THEN 0 ELSE w.docsel.end.offset - 1
         IN HeadingButton_update(
              SurfaceSelection_notify(
                CleanUpdate(SurfaceSelection_set(w, nodePos, 0, FALSE, 0, 0)),
                [w.sel EXCEPT !.inside = TRUE]))
  ELSE HeadingButton_update(SurfaceSelection_notify(CleanUpdate(w), w.sel))

\* Selection#set(newState): a caret state sets the start point only.
Selection_set(w, newState) ==
  IF Failed(w) THEN w
  ELSE IF newState = Unset \/ ~newState.surface THEN Throw(w, "TypeError")
  ELSE IF newState.caret
    THEN SurfaceSelection_set(w, newState.startNodeIndex, newState.startOffset,
                              FALSE, 0, 0)
    ELSE SurfaceSelection_set(w, newState.startNodeIndex, newState.startOffset,
                              TRUE, newState.endNodeIndex, newState.endOffset)

\* Selection#copyState: a copy of the current state, not a reference.
Selection_copyState(w) == w.sel

\* ------------------------------------------------- the surface hierarchy
\* The mother surface has ID 0 (SurfaceRegistry#idCount starts at -1); the
\* registry holds at most MaxSurfaces surfaces.
MaxSurfaces == 3
Mother == 0
NoSurface == -1
SurfaceIds == 0..(MaxSurfaces - 1)

\* The surfaces after new Editor(doc, dom): the mother surface is
\* registered, Selection#state is {inside: false, surface: null} and no
\* tracker is inside. anchor and focus are the IDs that findSurfaceID finds
\* for the host's anchor and focus (NoSurface outside the editor), ended the
\* surfaces whose tracker the last update ended, handled the surface whose
\* tracker it called handle() on, target the surface the last input event
\* was handed to.
InitialReg ==
  [count |-> 1, inside |-> FALSE, surface |-> NoSurface,
   anchor |-> NoSurface, focus |-> NoSurface,
   trackers |-> [s \in SurfaceIds |-> FALSE],
   ended |-> {}, handled |-> NoSurface, target |-> NoSurface]

\* new Surface(nodes) inside a node of the mother surface: the constructor
\* adds the surface to the registry, which numbers it.
SurfaceRegistry_add(g) == [g EXCEPT !.count = g.count + 1]

\* Selection#checkScope: a child surface's element lies in the mother's.
checkScope(g) ==
  [g EXCEPT !.inside = (g.anchor # NoSurface /\ g.focus # NoSurface)]

\* A delegatee that is the surface of the anchor.
delegatee_anchor(asid, fsid) == asid

\* The choice at the end of Selection#findDelegatee.
delegatee(asid, fsid) == IF asid # fsid THEN Mother ELSE asid

\* Selection#findDelegatee
findDelegatee(g) ==
  IF ~g.inside THEN g
  ELSE [g EXCEPT !.surface = delegatee(g.anchor, g.focus)]

\* SurfaceSelection#end of surface s, as far as the hierarchy sees it.
SurfaceSelection_end(g, s) ==
  [g EXCEPT !.trackers[s] = FALSE, !.ended = g.ended \cup {s}]

\* SurfaceSelection#handle of surface s: update() sets its inside flag.
SurfaceSelection_handle(g, s) ==
  [g EXCEPT !.trackers[s] = TRUE, !.handled = s]

\* An update that hands the selection over without ending the tracker of
\* the surface that handled it before.
Selection_update_handover(prev, g) == SurfaceSelection_handle(g, g.surface)

\* The end of Selection#update for a selection inside the editor; prev is
\* Selection#previousState and g the state after findDelegatee.
Selection_update_inside(prev, g) ==
  SurfaceSelection_handle(
    IF prev.inside /\ prev.surface # g.surface
      THEN SurfaceSelection_end(g, prev.surface) ELSE g,
    g.surface)

\* The start of Selection#update; g is the state after checkScope.
Selection_update_scoped(prev, g) ==
  IF ~g.inside
    THEN IF prev.inside THEN SurfaceSelection_end(g, prev.surface) ELSE g
  ELSE Selection_update_inside(prev, findDelegatee(g))

\* Selection#update over the surfaces of the registry.
Selection_updateSurfaces(g) ==
  Selection_update_scoped(g, checkScope([g EXCEPT !.ended = {}, !.handled = NoSurface]))

\* Editor#handle: the event goes to Selection#state.surface, and only while
\* the state is inside.
Editor_handle_surface(g) ==
  [g EXCEPT !.target = IF g.inside THEN g.surface ELSE NoSurface]

\* ------------------------------------------------------- node behaviors
\* The reply of a handler that returns no command.
NoCommand(w) == Made(Undefined, w)

\* surface.selection.set(index, offset) after the command of m was made;
\* the handler then returns that command.
setCaret(m, index, offset) ==
  Made(m.cmd, SurfaceSelection_set(m.w, index, offset, FALSE, 0, 0))

\* if(e) surface.selection.set(index, offset); return cmd;
setCaretIf(e, m, index, offset) == IF e THEN setCaret(m, index, offset) ELSE m

\* CF.insertNode(surface, new Constructor(), pos), c being the world after
\* the construction.
insertNew(c, pos) == CF_insertNode(c, c.next, pos)

\* A replacement that is inserted one index further.
IsolatedNode_replace_after(m1, pos) ==
  composePair(m1.cmd, insertNew(Construct(m1.w, "paragraph", 0), pos + 1))

\* The Compound of IsolatedNode's Backspace: after the RemoveNode m1, the
\* InsertNode of a new ParagraphNode at the same position.
IsolatedNode_replace(m1, pos) ==
  composePair(m1.cmd, insertNew(Construct(m1.w, "paragraph", 0), pos))

\* IsolatedNode behavior["Backspace"](r, e)
IsolatedNode_Backspace(w, r, e) ==
  setCaretIf(e, IsolatedNode_replace(CF_removeNode(w, r.startNodeIndex),
                                     r.startNodeIndex),
             r.startNodeIndex, 0)

\* IsolatedNode behavior["Enter"](r, e): e.preventDefault() and nothing else.
IsolatedNode_Enter(w, r, e) ==
  IF e THEN NoCommand(w) ELSE NoCommand(Throw(w, "TypeError"))

\* A caret put at the start of the node whatever the offset.
setCaretInNode_start(m, node, offset) == setCaret(m, m.w.heap[node].position, 0)

\* surface.selection.set(previous.position, caretPos): the position is read
\* after the command of m was made.
setCaretInNode(m, node, offset) == setCaret(m, m.w.heap[node].position, offset)

\* A test that lets the handler act at every offset.
BackspaceActs_anyOffset(r, e) == e /\ r.startNodeIndex # 0

\* if(r.startOffset === 0 && e) ... if(r.startNodeIndex !== 0): the caret's
\* Backspace acts on the model only at the start of a node that is not the
\* first.
BackspaceActs(r, e) == r.startOffset = 0 /\ e /\ r.startNodeIndex # 0

\* TextNode behavior["Backspace"](r, e); self is the node that owns the handler.
TextNode_Backspace(w, self, r, e) ==
  IF isCollapsed(r) THEN
    IF BackspaceActs(r, e) THEN
      LET previous == At(w.nodes, r.startNodeIndex - 1) IN
      IF previous = NoNode THEN NoCommand(Throw(w, "TypeError"))
      ELSE
        setCaretInNode(IF IsTextNode(w, previous)
                         THEN mergeTextNodes(w, w.heap[previous].position)
                       ELSE IF getLength(w, self) = 0
                         THEN CF_removeNode(w, r.startNodeIndex)
                       ELSE NoCommand(w),
                       previous, getLength(w, previous))
    ELSE NoCommand(w)
  ELSE IF ~e THEN
    IF startNode(w, r) = NoNode THEN NoCommand(Throw(w, "TypeError"))
    ELSE removeTextSlice(w, startNode(w, r), r.startOffset, r.endOffset)
  ELSE NoCommand(w)

\* A next node of the node's own class.
nextNodeConstructor_same(variant) == variant

\* TextNode#nextNodeConstructor as ParagraphNode and HeadingNode set it.
nextNodeConstructor(variant) == "paragraph"

\* TextNode behavior["Enter"](r, e)
TextNode_Enter(w, self, r, e) ==
  IF startNode(w, r) = NoNode THEN NoCommand(Throw(w, "TypeError"))
  ELSE
    setCaretIf(e,
               IF r.startOffset # getLength(w, startNode(w, r))
                 THEN splitTextNode(w, r.startNodeIndex, r.startOffset)
                 ELSE insertNew(Construct(w, nextNodeConstructor(w.heap[self].variant), 0),
                                r.startNodeIndex + 1),
               r.startNodeIndex + 1, 0)

\* String.prototype.slice(a, b) with offsets that are not negative: both are
\* clamped to the length, and nothing is returned when a is not below b.
Slice(t, a, b) ==
  IF Min(a, Len(t)) >= Min(b, Len(t)) THEN <<>>
  ELSE SubSeq(t, Min(a, Len(t)) + 1, Min(b, Len(t)))

\* Transforms.insertText(node, text, offset)
insertText(w, node, text, offset) ==
  IF Failed(w) \/ node = NoNode THEN Made(Undefined, Throw(w, "TypeError"))
  ELSE updateNode(w, node,
                  TextState(Slice(TextOf(w.heap[node].state), 0, offset) \o text
                            \o Slice(TextOf(w.heap[node].state), offset,
                                     Len(TextOf(w.heap[node].state)))),
                  TRUE)

\* The property the Paste handler writes a segment to: the source has the
\* name `text` followed by the letter U+00C2, which is another property
\* than `text`.
PastedKey == "text_C2"

\* var node = new ParagraphNode; node.state.text<U+00C2> = seg; c is the
\* world after the construction.
NewPasted(c, seg) ==
  [c EXCEPT !.heap[c.next].state =
     ObjectAssign(c.heap[c.next].state, [k \in {PastedKey} |-> seg])]

\* cmds.push(m.cmd)
PastePushed(cmds, m) == [cmds |-> Append(cmds, m.cmd), w |-> m.w]

\* The loop of the Paste handler from i on: one new paragraph per segment
\* but the last, inserted at startNodeIndex + i. acc holds cmds and w.
RECURSIVE PasteInsert(_, _, _)
PasteInsert(acc, r, i) ==
  IF i >= Len(acc.w.clip) - 1 \/ Failed(acc.w) THEN acc
  ELSE PasteInsert(
         PastePushed(acc.cmds,
                     insertNew(NewPasted(Construct(acc.w, "paragraph", 0),
                                         acc.w.clip[i + 1]),
                               r.startNodeIndex + i)),
         r, i + 1)

\* The end of the Paste handler: the selection is set into the node at
\* startNodeIndex + i, i being the index of the last segment, at that
\* segment's length; then the commands are composed.
Paste_end(acc, r) ==
  IF Failed(acc.w) THEN NoCommand(acc.w)
  ELSE setCaret(Made(compose(acc.cmds), acc.w),
                r.startNodeIndex + Len(acc.w.clip) - 1,
                Len(acc.w.clip[Len(acc.w.clip)]))

\* TextNode behavior["Paste"](r, e): w.clip is the clipboard's text split
\* at its line breaks; without an event e.clipboardData throws.
TextNode_Paste(w, self, r, e) ==
  IF ~e THEN NoCommand(Throw(w, "TypeError"))
  ELSE Paste_end(
         PasteInsert(PastePushed(<<>>, insertText(w, self, w.clip[Len(w.clip)],
                                                  r.startOffset)),
                     r, 0),
         r)

\* node.behavior.hasOwnProperty(name)
HasBehavior(w, n, name) ==
  /\ n # NoNode
  /\ IF IsTextNode(w, n) THEN name \in {"Enter", "Backspace", "Paste"}
                         ELSE name \in {"Enter", "Backspace"}

\* node.behavior[name].call(null, r, e)
Behave(w, n, name, r, e) ==
  IF Failed(w) THEN NoCommand(w)
  ELSE IF ~HasBehavior(w, n, name) THEN NoCommand(Throw(w, "TypeError"))
  ELSE IF IsTextNode(w, n) THEN
    IF name = "Backspace" THEN TextNode_Backspace(w, n, r, e)
    ELSE IF name = "Enter" THEN TextNode_Enter(w, n, r, e)
    ELSE TextNode_Paste(w, n, r, e)
  ELSE IF name = "Backspace" THEN IsolatedNode_Backspace(w, r, e)
  ELSE IsolatedNode_Enter(w, r, e)

\* ----------------------------------------------------------- removeRange
\* The ranges removeRange builds for the Backspace behaviors: no caret key.
SubRange(si, so, ei, eo) == Range(TRUE, FALSE, si, so, ei, eo)

\* A step 1 that removes no node.
RemoveInterior_none(acc, r, i) == acc

\* Step 1 of removeRange: one RemoveNode at startNodeIndex + 1 per node
\* strictly between the start and the end node. acc holds cmds and w.
RECURSIVE RemoveInterior(_, _, _)
RemoveInterior(acc, r, i) ==
  IF i >= r.endNodeIndex THEN acc
  ELSE LET m == CF_removeNode(acc.w, r.startNodeIndex + 1)
       IN RemoveInterior([cmds |-> Append(acc.cmds, m.cmd), w |-> m.w], r, i + 1)

\* cmds.push(cmd) for the command that m made, and CF.composeArray(cmds).
removeRange_compose(cmds, m) == Made(compose(Append(cmds, m.cmd)), m.w)

\* The end of step 2a and step 3 of removeRange, b being the reply of the end
\* node's Backspace: its command is pushed only `if(endNodeCmd)`, then the
\* two nodes are merged.
removeRange_merge(cmds, b, r) ==
  removeRange_compose(cmds \o (IF b.cmd = Undefined THEN <<>> ELSE <<b.cmd>>),
                      mergeTextNodes(b.w, r.startNodeIndex))

\* Step 2a of removeRange, a being the reply of
\* the start node's Backspace: its command is pushed as it is.
removeRange_end(cmds, a, r, endNodeIndex) ==
  removeRange_merge(Append(cmds, a.cmd),
                    Behave(a.w, At(a.w.nodes, endNodeIndex), "Backspace",
                           SubRange(endNodeIndex, 0, endNodeIndex, r.endOffset),
                           FALSE),
                    r)

\* A removeRange that removes up to the end of the start node in step 2b too.
removeRange_start_toEnd(s1, r) ==
  removeRange_compose(s1.cmds,
                      Behave(s1.w, startNode(s1.w, r), "Backspace",
                             SubRange(r.startNodeIndex, r.startOffset,
                                      r.startNodeIndex,
                                      getLength(s1.w, startNode(s1.w, r))),
                             FALSE))

\* removeRange after step 1, s1 holding the RemoveNode commands and the world.
removeRange_start(s1, r) ==
  LET endNodeIndex == r.endNodeIndex - Len(s1.cmds)
      sn == startNode(s1.w, r)
  IN
  IF Failed(s1.w) \/ sn = NoNode THEN NoCommand(Throw(s1.w, "TypeError"))
  ELSE IF endNodeIndex # r.startNodeIndex THEN
    removeRange_end(s1.cmds,
                    Behave(s1.w, sn, "Backspace",
                           SubRange(r.startNodeIndex, r.startOffset,
                                    r.startNodeIndex, getLength(s1.w, sn)), FALSE),
                    r, endNodeIndex)
  ELSE
    removeRange_compose(s1.cmds,
                        Behave(s1.w, sn, "Backspace",
                               SubRange(r.startNodeIndex, r.startOffset,
                                        r.startNodeIndex, r.endOffset), FALSE))

\* Transforms.removeRange(r)
removeRange(w, r) ==
  removeRange_start(RemoveInterior([cmds |-> <<>>, w |-> w], r, r.startNodeIndex + 1), r)

\* --------------------------------------------------------------- History
\* An entry of History#stack: the command object with the two properties
\* Editor.execute assigns to it; serial numbers the pushes.
Entry(cmd, selBefore, selAfter, serial) ==
  [cmd |-> cmd, selBefore |-> selBefore, selAfter |-> selAfter, serial |-> serial]

\* this.stack[i] with a 0-based index; `undefined` outside the array.
StackAt(w, i) ==
  IF i >= 0 /\ i < Len(w.stack) THEN w.stack[i + 1]
  ELSE Entry(Undefined, Unset, Unset, 0)

\* History#canUndo
canUndo(w) == w.cursor >= 0

\* A canRedo that always says yes.
canRedo_always(w) == TRUE

\* History#canRedo
canRedo(w) == w.cursor < Len(w.stack) - 1

\* A splice that erases nothing.
StackSplice_none(s, from) == s

\* this.stack.splice(from): every entry from index `from` on is erased.
StackSplice(s, from) == SubSeq(s, 1, Min(from, Len(s)))

\* this.stack[at] = x on an array with at <= length
StackPut(s, at, x) ==
  IF at < Len(s) THEN [s EXCEPT ![at + 1] = x] ELSE Append(s, x)

\* History#push(cmd)
History_push(w, cmd) ==
  LET c == w.cursor + 1
      put == StackPut(w.stack, c, Entry(cmd, Unset, Unset, w.pushes + 1))
      kept == StackSplice(put, c + 1)
      gone == {w.stack[i].serial : i \in 1..Len(w.stack)}
                \ {kept[i].serial : i \in 1..Len(kept)}
  IN [w EXCEPT !.cursor = c, !.stack = kept, !.pushes = w.pushes + 1,
               !.dropped = w.dropped \cup gone, !.pushed = TRUE]

\* this.cursor-- at the end of History#undo: reached only when neither
\* cancel() nor selection.set() has thrown.
History_undone(s, c) == IF Failed(s) THEN s ELSE [s EXCEPT !.cursor = c]

\* History#undo
History_undo(w) ==
  IF ~canUndo(w) THEN w
  ELSE History_undone(Selection_set(Cancel(StackAt(w, w.cursor).cmd, w),
                                    StackAt(w, w.cursor).selBefore),
                      w.cursor - 1)

\* History#redo: the cursor moves before the command runs.
History_redo(w) ==
  IF ~canRedo(w) THEN w
  ELSE LET m == [w EXCEPT !.cursor = w.cursor + 1,
                          !.redone = StackAt(w, w.cursor + 1).serial]
           x == Execute(StackAt(m, m.cursor).cmd, m)
       IN Selection_set(x, StackAt(m, m.cursor).selAfter)

\* ---------------------------------------------------------------- Editor
\* The end of Editor#execute, u being the world after history.push(cmd) and
\* selection.update(): the command on top of the stack gets its snapshots.
Editor_snapshots(u, selBefore) ==
  IF Failed(u) THEN u
  ELSE [u EXCEPT !.stack[u.cursor + 1].selBefore = selBefore,
                 !.stack[u.cursor + 1].selAfter = Selection_copyState(u),
                 !.ret = "true"]

\* An execute that pushes whatever the handler replied.
Editor_execute_always(w, m) ==
  IF Failed(m.w) THEN m.w
  ELSE Editor_snapshots(Selection_update(History_push(m.w, m.cmd)),
                        Selection_copyState(w))

\* Editor#execute(fn): m is what fn, called with the copy of the selection
\* state of w, replied: the command it made and the world it left.
Editor_execute(w, m) ==
  IF Failed(m.w) THEN m.w
  ELSE IF m.cmd = Undefined THEN [m.w EXCEPT !.ret = "false"]
  ELSE Editor_snapshots(Selection_update(History_push(m.w, m.cmd)),
                        Selection_copyState(w))

\* return CF.compose(removeRangeCmd, enterCmd), en being the reply of the
\* start node's Enter.
SelectionEnter_compose(cmd, en) ==
  IF Failed(en.w) THEN NoCommand(en.w) ELSE composePair(cmd, en)

\* The start node's Enter after removeRange has replied rr.
SelectionEnter_enter(rr, r) ==
  SelectionEnter_compose(rr.cmd, Behave(rr.w, startNode(rr.w, r), "Enter", r, TRUE))

\* DefaultBehavior["Selection+Enter"](r, e)
DefaultBehavior_SelectionEnter(w, r) ==
  IF startNode(w, r) = NoNode THEN NoCommand(Throw(w, "TypeError"))
  ELSE IF ~HasBehavior(w, startNode(w, r), "Enter") THEN NoCommand(w)
  ELSE SelectionEnter_enter(removeRange(w, r), r)

\* DefaultBehavior["Selection+Backspace"](r, e)
DefaultBehavior_SelectionBackspace(w, r) ==
  setCaret(removeRange(w, r), r.startNodeIndex, r.startOffset)

\* The keys whose keydown is modelled.
Keys == {"Enter", "Backspace"}

\* More keys: one with a surface handler for the caret only, and a letter,
\* which has no handler on keydown.
MoreKeys == Keys \cup {"Delete", "KeyA"}

\* The keys of the surface's behavior table (DefaultBehavior).
DefaultKeys ==
  {"Selection+Enter", "Selection+Backspace", "Selection+Keypress", "Delete",
   "Tab", "Paste", "Selection+Paste", "Cut", "Selection+Cut"}

\* The start node's Paste after removeRange has replied rr.
SelectionPaste_paste(rr, r) ==
  SelectionEnter_compose(rr.cmd, Behave(rr.w, startNode(rr.w, r), "Paste", r, TRUE))

\* DefaultBehavior["Selection+Paste"](r, e)
DefaultBehavior_SelectionPaste(w, r) ==
  IF startNode(w, r) = NoNode THEN NoCommand(Throw(w, "TypeError"))
  ELSE IF ~HasBehavior(w, startNode(w, r), "Paste") THEN NoCommand(w)
  ELSE SelectionPaste_paste(removeRange(w, r), r)

\* this.behavior[key].call(this, r, e) for the keys a keydown or a paste can
\* produce: "Delete", "Tab", "Paste" and the like call e.preventDefault()
\* and return nothing.
DefaultBehave(w, key, r) ==
  IF key = "Selection+Enter" THEN DefaultBehavior_SelectionEnter(w, r)
  ELSE IF key = "Selection+Backspace" THEN DefaultBehavior_SelectionBackspace(w, r)
  ELSE IF key = "Selection+Paste" THEN DefaultBehavior_SelectionPaste(w, r)
  ELSE NoCommand(w)

\* A key that is never prefixed.
handlerKey_plain(w, name) == name

\* if(!this.selection.caret) name = "Selection+" + name;
handlerKey(w, name) == IF ~w.sel.caret THEN "Selection+" \o name ELSE name

\* A handle that returns what the run of the handler returned.
Surface_handled_ifCommand(w) == IF Failed(w) THEN w ELSE [w EXCEPT !.handled = w.ret]

\* return true; at the end of Surface#handle, reached when a handler was
\* found and has not thrown.
Surface_handled(w) == IF Failed(w) THEN w ELSE [w EXCEPT !.handled = "true"]

\* Surface#handle once the key is known: the start node's own handler when
\* the selection is in one node that has the key, else the surface's.
Surface_dispatch(w) ==
  IF isInSameNode(w.sel) /\ startNode(w, w.sel) = NoNode THEN Throw(w, "TypeError")
  ELSE IF isInSameNode(w.sel) /\ HasBehavior(w, startNode(w, w.sel), w.key)
    THEN Surface_handled(
           Editor_execute(w, Behave([w EXCEPT !.called = "node"],
                                    startNode(w, w.sel), w.key,
                                    Selection_copyState(w), TRUE)))
  ELSE IF w.key \in DefaultKeys
    THEN Surface_handled(
           Editor_execute(w, DefaultBehave([w EXCEPT !.called = "surface"],
                                           w.key, Selection_copyState(w))))
  ELSE [w EXCEPT !.handled = "false"]

\* Surface#handle(name, event)
Surface_handle(w, name) == Surface_dispatch([w EXCEPT !.key = handlerKey(w, name)])

\* Editor#handle(name, e)
Editor_handle(w, name) ==
  IF w.sel.inside THEN Surface_handle(w, name) ELSE w

\* Transforms.changeTextNodeType(surface, pos, newNode), c being the world
\* after newNode (c.next) was constructed: the state of the node at pos is
\* assigned to newNode, the node at pos is removed and newNode inserted there.
changeTextNodeType_compose(m1, newNode, pos) ==
  composePair(m1.cmd, CF_insertNode(m1.w, newNode, pos))

changeTextNodeType_assigned(c, pos) ==
  [c EXCEPT !.heap[c.next].state =
     ObjectAssign(c.heap[c.next].state, c.heap[At(c.nodes, pos)].state)]

changeTextNodeType(c, pos) ==
  IF At(c.nodes, pos) = NoNode THEN NoCommand(Throw(c, "TypeError"))
  ELSE changeTextNodeType_compose(
         CF_removeNode(changeTextNodeType_assigned(c, pos), pos), c.next, pos)

\* The node HeadingButton.clickHandler constructs: on a heading (state 1) a
\* heading one level deeper, a paragraph after level 6; on another text node
\* (state 2) a heading of level 1. Level 0 stands for no number: the level
\* of a node that has none stays none when 1 is added.
HeadingButton_newNode(w, node, state) ==
  IF state = 2 THEN Construct(w, "heading", 1)
  ELSE IF w.heap[node].level = 6 THEN Construct(w, "paragraph", 0)
  ELSE Construct(w, "heading",
                 IF w.heap[node].level = 0 THEN 0 ELSE w.heap[node].level + 1)

\* SurfaceSelection#restore of the state saved, after the command of m.
SurfaceSelection_restore(m, saved) ==
  Made(m.cmd, SurfaceSelection_set(m.w, saved.startNodeIndex, saved.startOffset,
                                   ~saved.caret, saved.endNodeIndex, saved.endOffset))

\* The rest of the click handler once the selection is saved in world s.
HeadingButton_change(s, node, state) ==
  IF Failed(s) THEN NoCommand(s)
  ELSE IF node = NoNode THEN NoCommand(Throw(s, "TypeError"))
  ELSE SurfaceSelection_restore(
         changeTextNodeType(HeadingButton_newNode(s, node, state),
                            s.heap[node].position),
         s.sel)

\* HeadingButton.clickHandler(r, state): save the selection, change the type
\* of the start node of r, restore the selection.
HeadingButton_clickHandler(w, r, state) ==
  HeadingButton_change(Selection_update(w), startNode(w, r), state)

\* The click listener of the heading button: nothing when it is disabled.
HeadingButton_click(w) ==
  IF w.button = 0 THEN w
  ELSE Editor_execute(w, HeadingButton_clickHandler(w, Selection_copyState(w),
                                                    w.button))

\* TextNode#modelUpdateFromDOM when the element holds something to render
\* again, s being the world after selection.save(): the update is rendered
\* and the selection saved is restored.
modelUpdateFromDOM_rerender(s, n, text) ==
  SurfaceSelection_restore(updateNode(s, n, [text |-> text], TRUE), s.sel)

\* An input listener that creates no command.
modelUpdateFromDOM_none(w, n, text, rerender) == NoCommand(w)

\* TextNode#modelUpdateFromDOM: text is what the walk of the node's element
\* reads, rerender whether it met a trailing <br> or an invalid node.
modelUpdateFromDOM(w, n, text, rerender) ==
  IF rerender THEN modelUpdateFromDOM_rerender(Selection_update(w), n, text)
  ELSE updateNode(w, n, [text |-> text], FALSE)

\* The input listener of Editor#bind; it relies on the selection state as it
\* was left.
Editor_input(w, text, rerender) ==
  IF ~isInSameNode(w.sel) THEN Throw(w, "Error")
  ELSE IF ~IsTextNode(w, startNode(w, w.sel)) THEN Throw(w, "Error")
  ELSE Editor_execute(w, modelUpdateFromDOM(w, startNode(w, w.sel), text, rerender))

\* The click handlers of the toolbar's undo and redo buttons.
UndoButton_click(w) == Selection_update(History_undo(w))
RedoButton_click(w) == Selection_update(History_redo(w))

\* ------------------------------------------------------ the state machine
\* The program's state as one record, at the start of a handler.
World ==
  [nodes |-> nodes, heap |-> heap, next |-> next, docsel |-> docsel, sel |-> sel,
   stack |-> stack, cursor |-> cursor, pushes |-> pushes, dropped |-> dropped,
   log |-> <<>>, err |-> "none", ret |-> "none", pushed |-> FALSE, redone |-> 0,
   renders |-> <<>>, key |-> "", called |-> "none", handled |-> "none",
   clip |-> <<>>, button |-> button, reg |-> reg, selected |-> selected]

\* The node sequence as a reader sees it: per index the variant, the level
\* and the state of the node.
Doc(w) ==
  [i \in 1..Len(w.nodes) |->
     [variant |-> w.heap[w.nodes[i]].variant, level |-> w.heap[w.nodes[i]].level,
      state |-> w.heap[w.nodes[i]].state]]

\* No round trip under way.
NoTrip == [phase |-> "none", n |-> 0, doc |-> <<>>, sel |-> InitialSel]

\* The round trip after a step: a push starts one with the document and the
\* selection it left; undo calls count up to the stack's length, then redo
\* calls do; any other call ends it.
Trip(w, op) ==
  IF w.pushed THEN [phase |-> "top", n |-> 0, doc |-> Doc(w), sel |-> w.sel]
  ELSE IF op = "Undo" /\ trip.phase = "top"
    THEN [trip EXCEPT !.phase = "undo", !.n = 1]
  ELSE IF op = "Undo" /\ trip.phase = "undo" /\ trip.n < Len(stack)
    THEN [trip EXCEPT !.n = trip.n + 1]
  ELSE IF op = "Redo" /\ trip.phase = "undo" /\ trip.n = Len(stack)
    THEN [trip EXCEPT !.phase = "redo", !.n = 1]
  ELSE IF op = "Redo" /\ trip.phase = "redo" /\ trip.n < Len(stack)
    THEN [trip EXCEPT !.n = trip.n + 1]
  ELSE NoTrip

\* ------------------------------------------------- documents from JSON
\* A JSON document: its `nodes` property is absent, a string, an object that
\* is no array, or an array of node records; title is "" when it has none.
Json(kind, items, title) == [kind |-> kind, items |-> items, title |-> title]
NoJson == Json("none", <<>>, "")

\* What Document.fromJSON returns: a document, or nothing when it throws.
Returned(a, title) == [returned |-> TRUE, nodes |-> a, title |-> title]
NoDoc == [returned |-> FALSE, nodes |-> <<>>, title |-> ""]

\* The ids under which the node classes are added to the registry.
NodeTypes == {"paragraph", "heading"}

\* NodeRegistry#get(id): the class, or "throws" for an id that was not added
\* (the message of the Error names a variable that does not exist).
NodeRegistry_get(id) == IF id \in NodeTypes THEN id ELSE "throws"

\* clazz.fromJSON(json): an instance of the class with the state, and for a
\* heading the level, of the record.
Node_fromJSON(clazz, rec) ==
  [variant |-> clazz, level |-> IF clazz = "heading" THEN rec.level ELSE 0,
   text |-> rec.text]

\* A nodesFromJSON that skips the records of a class it does not know.
RECURSIVE nodesFromJSON_skip(_, _, _)
nodesFromJSON_skip(items, i, a) ==
  IF i > Len(items) THEN [err |-> "none", a |-> a]
  ELSE IF NodeRegistry_get(items[i].type) = "throws"
    THEN nodesFromJSON_skip(items, i + 1, a)
  ELSE nodesFromJSON_skip(items, i + 1,
         Append(a, Node_fromJSON(NodeRegistry_get(items[i].type), items[i])))

\* Document.nodesFromJSON(json): the loop from record i on, a being the array
\* built so far; the exception of NodeRegistry#get ends it.
RECURSIVE nodesFromJSON(_, _, _)
nodesFromJSON(items, i, a) ==
  IF i > Len(items) THEN [err |-> "none", a |-> a]
  ELSE IF NodeRegistry_get(items[i].type) = "throws"
    THEN [err |-> "ReferenceError", a |-> a]
  ELSE nodesFromJSON(items, i + 1,
         Append(a, Node_fromJSON(NodeRegistry_get(items[i].type), items[i])))

\* The end of Document.fromJSON: doc.nodes = <what nodesFromJSON returned>.
Document_withNodes(built, title) ==
  IF built.err # "none" THEN [err |-> built.err, doc |-> NoDoc]
  ELSE [err |-> "none", doc |-> Returned(built.a, title)]

\* Document.fromJSON(json)
Document_fromJSON(json) ==
  IF json.kind = "absent" THEN [err |-> "Error", doc |-> NoDoc]
  ELSE IF json.kind # "array" THEN [err |-> "Error", doc |-> NoDoc]
  ELSE Document_withNodes(nodesFromJSON(json.items, 1, <<>>), json.title)

\* The record of a call: which handler, the key, the arguments of a
\* transform, the text and the node count it found, whether a merge
\* follows the split of the same node, and the range a transform was given.
Call(op, name, i, k, text, count, chain) ==
  [op |-> op, name |-> name, i |-> i, k |-> k, text |-> text, count |-> count,
   chain |-> chain, r |-> Unset, clip |-> <<>>, json |-> NoJson, doc |-> NoDoc]
Plain(op, name) == Call(op, name, 0, 0, <<>>, 0, "")
RangeCall(op, r) == [Plain(op, "") EXCEPT !.r = r]
ClipCall(op, clip) == [Plain(op, "") EXCEPT !.clip = clip]

\* The state a handler leaves, with a record of the call that was made.
Step(w, call) ==
  /\ w.next <= MaxNodes
  /\ Len(w.nodes) <= MaxNodes
  /\ nodes' = w.nodes
  /\ heap' = w.heap
  /\ next' = w.next
  /\ docsel' = w.docsel
  /\ sel' = w.sel
  /\ stack' = w.stack
  /\ cursor' = w.cursor
  /\ pushes' = w.pushes
  /\ dropped' = w.dropped
  /\ log' = w.log
  /\ err' = w.err
  /\ button' = w.button
  /\ reg' = w.reg
  /\ selected' = w.selected
  /\ last' = [op |-> call.op, name |-> call.name, i |-> call.i, k |-> call.k,
              text |-> call.text, count |-> call.count, chain |-> call.chain,
              r |-> call.r, clip |-> call.clip, json |-> call.json, doc |-> call.doc,
              ret |-> w.ret, pushed |-> w.pushed, redone |-> w.redone,
              renders |-> w.renders, key |-> w.key, called |-> w.called,
              handled |-> w.handled]
  /\ trip' = Trip(w, call.op)

\* The text of length n that the node at index pos of a document starts
\* with: every node has letters of its own.
InitText(pos, n, maxlen) == SubSeq(Alphabet, pos * maxlen + 1, pos * maxlen + n)

\* The level of a heading at index pos of an initial document: the last
\* level (h6) for the first node, the first level (h1) for the others.
HeadingLevelAt(pos) == IF pos = 0 THEN 6 ELSE 1

\* What Document.fromJSON builds the node at index pos from: a paragraph or a
\* heading with its text, or an isolated node.
NodeSpecs(pos, maxlen) ==
  {[variant |-> v, level |-> IF v = "heading" THEN HeadingLevelAt(pos) ELSE 0,
    text |-> InitText(pos, n, maxlen)] : v \in TextVariants, n \in 0..maxlen}
    \cup {[variant |-> "isolated", level |-> 0, text |-> <<>>]}

RECURSIVE DocsOfLen(_, _)
DocsOfLen(n, maxlen) ==
  IF n = 0 THEN {<<>>}
  ELSE {Append(d, x) : d \in DocsOfLen(n - 1, maxlen), x \in NodeSpecs(n - 1, maxlen)}
Docs == UNION {DocsOfLen(n, MaxLen) : n \in 1..MaxInitNodes}

\* The node instance built from a node spec and attached at index pos by
\* Surface#attachNodes.
Loaded(x, pos) ==
  [variant |-> x.variant, level |-> x.level,
   state |-> IF x.variant \in TextVariants THEN TextState(x.text) ELSE IsolatedState,
   surface |-> TRUE, position |-> pos]

\* new Editor(doc, dom): the nodes of the document are attached in order, the
\* History is fresh and nothing is selected.
Loads(doc) ==
  /\ nodes = [i \in 1..Len(doc) |-> i]
  /\ heap = [n \in NodeIds |-> IF n <= Len(doc) THEN Loaded(doc[n], n - 1) ELSE Unborn]
  /\ next = Len(doc)
  /\ stack = <<>>
  /\ cursor = -1
  /\ pushes = 0
  /\ dropped = {}
  /\ log = <<>>
  /\ err = "none"
  /\ button = 0
  /\ reg = InitialReg
  /\ selected = {}
  /\ last = [op |-> "new", name |-> "", i |-> 0, k |-> 0, text |-> <<>>,
             count |-> 0, chain |-> "", r |-> Unset, clip |-> <<>>,
             json |-> NoJson, doc |-> NoDoc, ret |-> "none",
             pushed |-> FALSE, redone |-> 0, renders |-> <<>>, key |-> "",
             called |-> "none", handled |-> "none"]
  /\ trip = NoTrip

Init ==
  \E doc \in Docs :
    /\ Loads(doc)
    /\ docsel = NoDocSel
    /\ sel = InitialSel

\* The user selects from (si, so) to (ei, eo) with the mouse; the mouseup
\* listener runs Selection#update. The host's range is ordered: its start
\* is not after its end, also when both lie in the element of one instance.
Select(si, so, ei, eo, maxpush) ==
  /\ pushes < maxpush
  /\ si <= ei /\ (At(nodes, si) = At(nodes, ei) => so <= eo)
  /\ so <= getLength(World, At(nodes, si))
  /\ eo <= getLength(World, At(nodes, ei))
  /\ Step(Selection_update(
            [World EXCEPT !.docsel =
               [start |-> offsetToBoundaryPoint(World, At(nodes, si), so),
                end |-> offsetToBoundaryPoint(World, At(nodes, ei), eo)]]),
          Plain("Select", ""))

\* A keyup or a mouseup elsewhere: Selection#update on the host's selection
\* as it is.
KeyUp ==
  /\ Selection_update(World) # World
  /\ Step(Selection_update(World), Plain("KeyUp", ""))

\* A keydown of one of the keys: Editor#handle(e.code, e).
KeyDown(name, maxpush) ==
  /\ pushes < maxpush
  /\ Step(Editor_handle(World, name), Plain("KeyDown", name))

\* Clicks on the toolbar's undo and redo buttons.
Undo == Step(UndoButton_click(World), Plain("Undo", ""))
Redo == Step(RedoButton_click(World), Plain("Redo", ""))

Next ==
  \/ \E si \in 0..(Len(nodes) - 1), ei \in 0..(Len(nodes) - 1),
        so \in 0..MaxLen * MaxNodes, eo \in 0..MaxLen * MaxNodes :
       Select(si, so, ei, eo, MaxPush)
  \/ KeyUp
  \/ \E name \in Keys : KeyDown(name, MaxPush)
  \/ Undo
  \/ Redo

Spec == Init /\ [][Next]_vars

\* ------------------------------------------- transforms called directly
\* The documents the transforms are called on.
TextDocs == UNION {DocsOfLen(n, MaxTextLen) : n \in 1..MaxInitNodes}

\* The editor is loaded with one of the documents and the caret is put at
\* the start of the first node.
LoadsWithCaret(docs) ==
  \E doc \in docs :
    /\ Loads(doc)
    /\ LET bp == BP("dom", 1, 0) IN docsel = [start |-> bp, end |-> bp]
    /\ sel = Range(TRUE, TRUE, 0, 0, 0, 0)

InitT == LoadsWithCaret(TextDocs)

\* state.text of the node at index i, <<>> when it has none.
TextAt(w, i) ==
  IF IsTextNode(w, At(w.nodes, i)) THEN w.heap[At(w.nodes, i)].state.text ELSE <<>>

\* editor.execute(() => Transforms.splitTextNode(surface, i, k)), the way the
\* toolbar's buttons run a transform.
Split(i, k, maxpush) ==
  /\ pushes < maxpush
  /\ Step(Editor_execute(World, splitTextNode(World, i, k)),
          Call("Split", "", i, k, TextAt(World, i), Len(nodes), "split"))

\* editor.execute(() => Transforms.mergeTextNodes(surface, i))
Merge(i, maxpush) ==
  /\ pushes < maxpush
  /\ Step(Editor_execute(World, mergeTextNodes(World, i)),
          IF last.op = "Split" /\ last.ret = "true" /\ last.i = i
            THEN Call("Merge", "", i, last.k, last.text, last.count, "split-merge")
            ELSE Call("Merge", "", i, 0, TextAt(World, i), Len(nodes), ""))

NextT ==
  \/ \E i \in 0..(Len(nodes) - 1), k \in 0..MaxTextLen * MaxInitNodes :
       Split(i, k, MaxPush)
  \/ \E i \in 0..(Len(nodes) - 1) : Merge(i, MaxPush)
  \/ Undo
  \/ Redo

SpecT == InitT /\ [][NextT]_vars

\* ------------------------------------------------------ longer histories
\* Keys pressed at the caret and transforms called, with up to MaxPushH
\* commands pushed, on the documents of Init.
InitH == LoadsWithCaret(Docs)

NextH ==
  \/ \E name \in Keys : KeyDown(name, MaxPushH)
  \/ \E i \in 0..(Len(nodes) - 1), k \in 0..MaxLen * MaxNodes :
       Split(i, k, MaxPushH)
  \/ \E i \in 0..(Len(nodes) - 1) : Merge(i, MaxPushH)
  \/ Undo
  \/ Redo

SpecH == InitH /\ [][NextH]_vars

\* --------------------------------------------- removeRange called directly
\* The documents removeRange is called on.
RangeDocs == UNION {DocsOfLen(n, MaxRangeLen) : n \in 1..MaxRangeNodes}

InitR == LoadsWithCaret(RangeDocs)

\* A range from (si, so) to (ei, eo) that lies in the document: the start is
\* not after the end and the offsets are within the nodes' lengths.
ValidRange(w, si, so, ei, eo) ==
  /\ si <= ei /\ (si = ei => so <= eo)
  /\ At(w.nodes, si) # NoNode /\ At(w.nodes, ei) # NoNode
  /\ so <= getLength(w, At(w.nodes, si))
  /\ eo <= getLength(w, At(w.nodes, ei))

\* editor.execute(() => Transforms.removeRange(r)) with r from (si, so) to
\* (ei, eo).
RemoveRange(si, so, ei, eo) ==
  /\ pushes < MaxPushR
  /\ ValidRange(World, si, so, ei, eo)
  /\ Step(Editor_execute(World, removeRange(World, SubRange(si, so, ei, eo))),
          RangeCall("RemoveRange", SubRange(si, so, ei, eo)))

NextR ==
  \/ \E si \in 0..(Len(nodes) - 1), ei \in 0..(Len(nodes) - 1),
        so \in 0..MaxRangeLen, eo \in 0..MaxRangeLen :
       RemoveRange(si, so, ei, eo)
  \/ Undo
  \/ Redo

SpecR == InitR /\ [][NextR]_vars

\* ------------------------------------------------ keys with no handler
\* The mouse and the keys of MoreKeys, with up to MaxPushK commands pushed.
NextK ==
  \/ \E si \in 0..(Len(nodes) - 1), ei \in 0..(Len(nodes) - 1),
        so \in 0..MaxLen * MaxNodes, eo \in 0..MaxLen * MaxNodes :
       Select(si, so, ei, eo, MaxPushK)
  \/ KeyUp
  \/ \E name \in MoreKeys : KeyDown(name, MaxPushK)
  \/ Undo
  \/ Redo

SpecK == Init /\ [][NextK]_vars

\* ------------------------------------------------------ keys at a caret
\* The documents the keys are pressed in.
CaretDocs == UNION {DocsOfLen(n, MaxCaretLen) : n \in 1..MaxInitNodes}

InitC ==
  \E doc \in CaretDocs :
    /\ Loads(doc)
    /\ docsel = NoDocSel
    /\ sel = InitialSel

\* A click at offset o of node i: a mouseup with a collapsed selection.
Click(i, o) == Select(i, o, i, o, MaxPush)

\* Clicks and keys: every key is pressed with a caret.
NextC ==
  \/ \E i \in 0..(Len(nodes) - 1), o \in 0..MaxCaretLen * MaxInitNodes : Click(i, o)
  \/ KeyUp
  \/ \E name \in Keys : KeyDown(name, MaxPush)
  \/ Undo
  \/ Redo

SpecC == InitC /\ [][NextC]_vars

\* ----------------------------------------------------------------- paste
\* The clipboard's text, split at its line breaks: one, two and three
\* segments, an empty segment among them.
Clips ==
  {<<<<"x">>>>, <<<<"x">>, <<"y", "z">>>>, <<<<"x">>, <<>>, <<"y">>>>}

\* A paste event: Editor#handle("Paste", e) with the clipboard holding clip.
Paste(clip, maxpush) ==
  /\ pushes < maxpush
  /\ Step(Editor_handle([World EXCEPT !.clip = clip], "Paste"),
          ClipCall("Paste", clip))

\* Clicks and pastes at the caret.
NextV ==
  \/ \E i \in 0..(Len(nodes) - 1), o \in 0..MaxCaretLen * MaxInitNodes : Click(i, o)
  \/ \E clip \in Clips : Paste(clip, MaxPushV)
  \/ Undo
  \/ Redo

SpecV == InitC /\ [][NextV]_vars

\* ------------------------------------------------------- every handler
\* The documents every handler is run on: one node, as the document that
\* new Document(true) initializes has, of any class; headings of the first
\* and of the last level among them.
HeadingLevels == {1, 6}
AllNodeSpecs(pos) ==
  NodeSpecs(pos, MaxLen)
    \cup {[variant |-> "heading", level |-> l, text |-> InitText(pos, n, MaxLen)] :
            l \in HeadingLevels, n \in 0..MaxLen}

AllDocs == {<<x>> : x \in AllNodeSpecs(0)}

InitN ==
  \E doc \in AllDocs :
    /\ Loads(doc)
    /\ docsel = NoDocSel
    /\ sel = InitialSel

\* A mouseup outside the editor: the host's selection holds no node of it.
ClickOutside ==
  /\ docsel # NoDocSel
  /\ Step(Selection_update([World EXCEPT !.docsel = NoDocSel]),
          Plain("Select", "outside"))

\* A click on the toolbar's heading button.
HeadingClick(maxpush) ==
  /\ pushes < maxpush
  /\ button # 0
  /\ Step(HeadingButton_click(World), Plain("Heading", ""))

\* The mouse, the keys, the clipboard and the toolbar.
NextN ==
  \/ \E si \in 0..(Len(nodes) - 1), ei \in 0..(Len(nodes) - 1),
        so \in 0..MaxLen * MaxNodes, eo \in 0..MaxLen * MaxNodes :
       Select(si, so, ei, eo, MaxPushN)
  \/ ClickOutside
  \/ KeyUp
  \/ \E name \in Keys : KeyDown(name, MaxPushN)
  \/ \E clip \in Clips : Paste(clip, MaxPushN)
  \/ HeadingClick(MaxPushN)
  \/ Undo
  \/ Redo

SpecN == InitN /\ [][NextN]_vars

\* ------------------------------------------------------ loading a document
\* The node records of a JSON document: of the two classes of the registry
\* and of a class that was never added.
NodeRecords ==
  {[type |-> t, level |-> IF t = "heading" THEN 1 ELSE 0, text |-> x] :
     t \in NodeTypes \cup {"image"}, x \in {<<>>, <<Alphabet[1]>>}}

RECURSIVE RecordLists(_)
RecordLists(n) ==
  IF n = 0 THEN {<<>>}
  ELSE RecordLists(n - 1)
         \cup {Append(l, x) : l \in {k \in RecordLists(n - 1) : Len(k) = n - 1},
                               x \in NodeRecords}

\* The JSON documents that are loaded.
Jsons ==
  {Json(kind, <<>>, "") : kind \in {"absent", "string", "object"}}
    \cup {Json("array", l, title) : l \in RecordLists(MaxJsonNodes), title \in {"", "t"}}

\* new Editor(dom, doc): the nodes of doc are attached in order; the History
\* and the selection are new.
Editor_new(w, doc) ==
  [w EXCEPT !.nodes = [i \in 1..Len(doc.nodes) |-> i],
            !.heap = [n \in NodeIds |-> IF n <= Len(doc.nodes)
                                          THEN Loaded(doc.nodes[n], n - 1) ELSE Unborn],
            !.next = Len(doc.nodes), !.docsel = NoDocSel, !.sel = InitialSel,
            !.stack = <<>>, !.cursor = -1, !.pushes = 0, !.dropped = {},
            !.button = 0, !.selected = {}]

\* What is left after Document.fromJSON has replied: a new editor on the
\* document, or the exception and the editor there was.
Loading(w, reply) ==
  IF reply.err # "none" THEN Throw(w, reply.err) ELSE Editor_new(w, reply.doc)

\* The page loads a document: new Editor(dom, Document.fromJSON(json)).
Load(json) ==
  Step(Loading(World, Document_fromJSON(json)),
       [Plain("Load", "") EXCEPT !.json = json, !.doc = Document_fromJSON(json).doc])

NextJ == \E json \in Jsons : Load(json)

SpecJ == Init /\ [][NextJ]_vars

\* ---------------------------------------------------------- text input
\* What the element of a node holds after the user has typed in it.
InputTexts == {<<>>, <<"x">>}

\* The selection state lies in one text node, which the input listener
\* reconciles.
InOneTextNode(w) == isInSameNode(w.sel) /\ IsTextNode(w, startNode(w, w.sel))

\* The host has put text in the element of the node its caret is in, and
\* left the caret at offset o.
Typed(w, text, o) ==
  IF ~InOneTextNode(w) THEN w
  ELSE LET bp == IF text = <<>> THEN BP("dom", w.docsel.start.node, 0)
                 ELSE BP("text", w.docsel.start.node, o)
       IN [w EXCEPT !.docsel = [start |-> bp, end |-> bp]]

\* An input event that the listener did not reconcile: the element and the
\* state of the node differ from then on. The model holds the state only, so
\* the behaviour is followed no further.
Unreconciled == last.op = "Input" /\ err # "none"

\* An input event after the user has typed; in a text node the host's
\* selection is in the node the selection state names.
Input(text, o, rerender) ==
  /\ pushes < MaxPushI
  /\ docsel # NoDocSel
  /\ o <= Len(text)
  /\ InOneTextNode(World) =>
        /\ docsel.start.node = startNode(World, sel)
        /\ docsel.end.node = startNode(World, sel)
  /\ Step(Editor_input(Typed(World, text, o), text, rerender),
          Call("Input", "", 0, o, text, 0, IF rerender THEN "rerender" ELSE ""))

NextI ==
  \/ \E si \in 0..(Len(nodes) - 1), ei \in 0..(Len(nodes) - 1),
        so \in 0..MaxLen * MaxNodes, eo \in 0..MaxLen * MaxNodes :
       ~Unreconciled /\ Select(si, so, ei, eo, MaxPushI)
  \/ \E text \in InputTexts, o \in 0..1, rerender \in BOOLEAN :
       ~Unreconciled /\ Input(text, o, rerender)
  \/ ~Unreconciled /\ Undo
  \/ ~Unreconciled /\ Redo

SpecI == Init /\ [][NextI]_vars

\* ------------------------------------------------- several surfaces
\* A node of the mother surface creates a surface of its own.
NewSurface ==
  /\ reg.count < MaxSurfaces
  /\ Step([World EXCEPT !.reg = SurfaceRegistry_add(reg)], Plain("NewSurface", ""))

\* A mouseup that leaves the host's anchor in surface a and its focus in
\* surface f, or outside the editor: Selection#update.
MouseUp(a, f) ==
  /\ a < reg.count /\ f < reg.count
  /\ Step([World EXCEPT !.reg =
             Selection_updateSurfaces([reg EXCEPT !.anchor = a, !.focus = f])],
          Plain("MouseUp", ""))

\* A keydown, paste or input event: Editor#handle.
Dispatch ==
  Step([World EXCEPT !.reg = Editor_handle_surface(reg)], Plain("Dispatch", ""))

NextS ==
  \/ NewSurface
  \/ \E a \in SurfaceIds \cup {NoSurface}, f \in SurfaceIds \cup {NoSurface} :
       MouseUp(a, f)
  \/ Dispatch

SpecS == Init /\ [][NextS]_vars

\* ------------------------------------------- primitives called directly
\* The partial updates CF.updateNode is called with: one of a key every text
\* node has and one of a key no node has.
StateUpdates == {[text |-> <<Alphabet[Len(Alphabet)]>>], [caption |-> <<Alphabet[Len(Alphabet)]>>]}

\* The node classes whose instances are inserted.
InsertVariants == {"paragraph", "isolated"}

InitP == LoadsWithCaret(Docs)

\* editor.execute(() => CF.insertNode(surface, new <node class>(), p))
InsertNode(variant, p) ==
  /\ pushes < MaxPushP
  /\ next < MaxNodes
  /\ Step(Editor_execute(World, insertNew(Construct(World, variant, 0), p)),
          Call("InsertNode", variant, p, 0, <<>>, Len(nodes), ""))

\* editor.execute(() => CF.removeNode(surface, p))
RemoveNode(p) ==
  /\ pushes < MaxPushP
  /\ Step(Editor_execute(World, CF_removeNode(World, p)),
          Call("RemoveNode", "", p, 0, <<>>, Len(nodes), ""))

\* editor.execute(() => CF.updateNode(surface.nodes[i], update, rerender))
UpdateNode(i, update, rerender) ==
  /\ pushes < MaxPushP
  /\ Step(Editor_execute(World, updateNode(World, At(nodes, i), update, rerender)),
          Call("UpdateNode", "", i, 0, <<>>, Len(nodes), ""))

NextP ==
  \/ \E variant \in InsertVariants, p \in 0..Len(nodes) : InsertNode(variant, p)
  \/ \E p \in 0..(Len(nodes) - 1) : RemoveNode(p)
  \/ \E i \in 0..(Len(nodes) - 1), update \in StateUpdates, rerender \in BOOLEAN :
       UpdateNode(i, update, rerender)
  \/ Undo
  \/ Redo

SpecP == InitP /\ [][NextP]_vars

\* ------------------------------------------------- what a command calls
\* The primitive commands of a command in list order; `undefined` is none.
RECURSIVE Steps(_), StepsOfAll(_)
Steps(cmd) ==
  IF cmd.type = "Compound" THEN StepsOfAll(cmd.commands)
  ELSE IF cmd.type = "Undefined" THEN <<>>
  ELSE <<[type |-> cmd.type, node |-> cmd.node, pos |-> cmd.pos]>>
StepsOfAll(cmds) ==
  IF cmds = <<>> THEN <<>> ELSE Steps(Head(cmds)) \o StepsOfAll(Tail(cmds))

\* TRUE iff `undefined` sits nowhere in the command.
RECURSIVE WellFormed(_)
WellFormed(cmd) ==
  /\ cmd.type # "Undefined"
  /\ \A i \in 1..Len(cmd.commands) : WellFormed(cmd.commands[i])

Reverse(s) == [i \in 1..Len(s) |-> s[Len(s) + 1 - i]]

\* The log entries of calling `call` on each of the steps, in that order.
Called(call, steps) ==
  [i \in 1..Len(steps) |->
     [call |-> call, type |-> steps[i].type, node |-> steps[i].node,
      pos |-> steps[i].pos]]

\* C1: after N commands were executed and pushed, N calls of undo followed by
\* N calls of redo leave the node sequence (order, variants, texts) and the
\* selection state as they were after the N-th command.
C1_RoundTrip ==
  (trip.phase = "redo" /\ trip.n = Len(stack))
    => (Doc(World) = trip.doc /\ sel = trip.sel)

\* C2: in every reachable state -1 <= cursor <= stack.length - 1.
C2_CursorInRange == cursor >= -1 /\ cursor <= Len(stack) - 1

\* C3: right after a push the pushed command is the last entry and the one
\* at the cursor, canRedo() is false and canUndo() is true; a command that a
\* push erased is never in the stack again and no redo ever executes it.
C3_PushDiscards ==
  /\ last.pushed =>
       /\ Len(stack) = cursor + 1
       /\ ~canRedo(World)
       /\ canUndo(World)
       /\ StackAt(World, cursor).serial = pushes
  /\ \A i \in 1..Len(stack) : stack[i].serial \notin dropped
  /\ last.redone \notin dropped

\* C4: undo with cursor < 0 calls no cancel() and leaves cursor, stack, node
\* sequence and selection as they were; with cursor >= 0 it cancels the
\* command at the cursor, that one only, and decrements the cursor by one.
C4_UndoFrame ==
  [][last'.op = "Undo" =>
       IF cursor < 0
         THEN /\ log' = <<>> /\ err' = "none"
              /\ cursor' = cursor /\ stack' = stack
              /\ nodes' = nodes /\ heap' = heap
              /\ History_undo(World).docsel = docsel
              /\ History_undo(World).sel = sel
         ELSE /\ log' = Called("cancel", Reverse(Steps(StackAt(World, cursor).cmd)))
              /\ cursor' = cursor - 1]_vars

\* C5: redo with the cursor at the last entry calls no execute() and leaves
\* cursor, stack, node sequence and selection as they were; otherwise it
\* increments the cursor by one and executes the command now at the cursor,
\* that one only.
C5_RedoFrame ==
  [][last'.op = "Redo" =>
       IF cursor >= Len(stack) - 1
         THEN /\ log' = <<>> /\ err' = "none"
              /\ cursor' = cursor /\ stack' = stack
              /\ nodes' = nodes /\ heap' = heap
              /\ History_redo(World).docsel = docsel
              /\ History_redo(World).sel = sel
         ELSE /\ log' = Called("execute", Steps(StackAt(World, cursor + 1).cmd))
              /\ cursor' = cursor + 1]_vars

\* C6: execute stores the selection before and after the command with it;
\* undo of the command leaves the selection of the snapshot taken before,
\* redo that of the snapshot taken after, and no later step changes the
\* snapshots of a command that stays in the stack.
C6_Snapshots ==
  [][/\ (last'.op = "KeyDown" /\ last'.ret = "true") =>
          /\ StackAt(World', cursor').selBefore = sel
          /\ StackAt(World', cursor').selAfter = sel'
     /\ (last'.op = "Undo" /\ cursor >= 0) =>
          sel' = StackAt(World, cursor).selBefore
     /\ (last'.op = "Redo" /\ cursor < Len(stack) - 1) =>
          sel' = StackAt(World, cursor + 1).selAfter
     /\ \A i \in 1..Len(stack) :
          (i <= Len(stack') /\ stack'[i].serial = stack[i].serial) =>
             /\ stack'[i].selBefore = stack[i].selBefore
             /\ stack'[i].selAfter = stack[i].selAfter]_vars

\* C7: cancel() of a command composed of commands c1..cn calls cn.cancel ..
\* c1.cancel, execute() calls c1.execute .. cn.execute, each once and in that
\* order.
C7_ComposeOrder ==
  [][/\ (/\ last'.op = "Undo" /\ cursor >= 0
         /\ StackAt(World, cursor).cmd.type = "Compound"
         /\ WellFormed(StackAt(World, cursor).cmd)) =>
          log' = Called("cancel", Reverse(Steps(StackAt(World, cursor).cmd)))
     /\ (/\ last'.op = "Redo" /\ cursor < Len(stack) - 1
         /\ StackAt(World, cursor + 1).cmd.type = "Compound"
         /\ WellFormed(StackAt(World, cursor + 1).cmd)) =>
          log' = Called("execute", Steps(StackAt(World, cursor + 1).cmd))]_vars

\* C8: splitTextNode(surface, i, k) on a text node with text t and
\* 0 <= k <= length(t) leaves t[0,k) in node i and a new node of the same
\* variant with t[k,length) at index i+1, keeps every other node and their
\* order, and makes one composed command of two steps whose cancel() brings
\* back the single node with text t.
C8_Split ==
  [][(/\ last'.op = "Split"
      /\ IsTextNode(World, At(nodes, last'.i))
      /\ last'.k <= Len(TextAt(World, last'.i))) =>
       LET i == last'.i
           k == last'.k
           n == At(nodes, i)
           t == TextAt(World, i)
           m == At(nodes', i + 1)
           cmd == StackAt(World', cursor').cmd
           c == Cancel(cmd, World')
       IN /\ err' = "none" /\ last'.ret = "true"
          /\ At(nodes', i) = n
          /\ heap'[n].state.text = SubSeq(t, 1, k)
          /\ m # NoNode /\ \A j \in 1..Len(nodes) : nodes[j] # m
          /\ heap'[m].variant = heap[n].variant
          /\ heap'[m].state.text = SubSeq(t, k + 1, Len(t))
          /\ SpliceOut(nodes', i + 1) = nodes
          /\ \A j \in 1..Len(nodes) :
               nodes[j] # n =>
                 /\ heap'[nodes[j]].state = heap[nodes[j]].state
                 /\ heap'[nodes[j]].variant = heap[nodes[j]].variant
          /\ Len(stack') = cursor' + 1 /\ cmd.type = "Compound"
          /\ Len(cmd.commands) = 2
          /\ ~Failed(c) /\ c.nodes = nodes /\ Doc(c) = Doc(World)]_vars

\* C9: mergeTextNodes(surface, i) on text nodes with texts a (index i) and b
\* (index i+1) leaves a+b in node i and removes the node at i+1, so that
\* there is one node less; cancel() brings back both texts, with the same
\* second instance at index i+1.
C9_Merge ==
  [][(/\ last'.op = "Merge"
      /\ IsTextNode(World, At(nodes, last'.i))
      /\ IsTextNode(World, At(nodes, last'.i + 1))) =>
       LET i == last'.i
           a == TextAt(World, i)
           b == TextAt(World, i + 1)
           c == Cancel(StackAt(World', cursor').cmd, World')
       IN /\ err' = "none" /\ last'.ret = "true"
          /\ At(nodes', i) = At(nodes, i)
          /\ TextAt(World', i) = a \o b
          /\ nodes' = SpliceOut(nodes, i + 1)
          /\ Len(nodes') = Len(nodes) - 1
          /\ ~Failed(c) /\ c.nodes = nodes
          /\ TextAt(c, i) = a /\ TextAt(c, i + 1) = b]_vars

\* C10: splitTextNode(surface, i, k) with 0 <= k <= length followed by
\* mergeTextNodes(surface, i) leaves at index i the text the node had before
\* the split, and as many nodes as before the split.
C10_SplitMerge ==
  (last.chain = "split-merge" /\ last.k <= Len(last.text)) =>
     /\ last.ret = "true"
     /\ TextAt(World, last.i) = last.text
     /\ Len(nodes) = last.count

\* The node sequence without the nodes at the 0-based indices s+1 .. e.
WithoutNodes(seq, s, e) ==
  [j \in 1..(Len(seq) - (e - s)) |-> IF j <= s + 1 THEN seq[j] ELSE seq[j + (e - s)]]

\* C11: removeRange from (s, so) to (e, eo) with s < e and text nodes at s
\* and e leaves e - s nodes less; node s is the same node with its variant
\* and the text start[0,so) + end[eo,length); the nodes before s and after e
\* are the same, with the same states, in the same order.
C11_RemoveRange ==
  [][(/\ last'.op = "RemoveRange"
      /\ last'.r.startNodeIndex < last'.r.endNodeIndex
      /\ IsTextNode(World, At(nodes, last'.r.startNodeIndex))
      /\ IsTextNode(World, At(nodes, last'.r.endNodeIndex))) =>
       LET s == last'.r.startNodeIndex
           e == last'.r.endNodeIndex
           so == last'.r.startOffset
           eo == last'.r.endOffset
           n == At(nodes, s)
           ts == TextAt(World, s)
           te == TextAt(World, e)
       IN /\ err' = "none"
          /\ Len(nodes') = Len(nodes) - (e - s)
          /\ nodes' = WithoutNodes(nodes, s, e)
          /\ heap'[n].variant = heap[n].variant
          /\ heap'[n].level = heap[n].level
          /\ heap'[n].state.text = SubSeq(ts, 1, so) \o SubSeq(te, eo + 1, Len(te))
          /\ \A j \in 1..Len(nodes) :
               (j < s + 1 \/ j > e + 1) =>
                 /\ heap'[nodes[j]].state = heap[nodes[j]].state
                 /\ heap'[nodes[j]].variant = heap[nodes[j]].variant]_vars

\* C12: removeRange on any valid range returns one composed command, and
\* its cancel() ends without an exception and brings back the node sequence
\* as it was: the same instances in the same order with the same states.
C12_RemoveRangeUndo ==
  [][last'.op = "RemoveRange" =>
       LET cmd == StackAt(World', cursor').cmd
           c == Cancel(cmd, World')
       IN /\ err' = "none" /\ last'.ret = "true"
          /\ cmd.type = "Compound"
          /\ ~Failed(c)
          /\ c.nodes = nodes
          /\ \A j \in 1..Len(nodes) :
               c.heap[nodes[j]].state = heap[nodes[j]].state]_vars

\* C13, as stated: removeRange on a collapsed range leaves the node
\* sequence and the state of every node as they were.
C13_CollapsedRemovesNothing ==
  [][(/\ last'.op = "RemoveRange"
      /\ last'.r.startNodeIndex = last'.r.endNodeIndex
      /\ last'.r.startOffset = last'.r.endOffset) =>
       /\ err' = "none"
       /\ nodes' = nodes
       /\ \A j \in 1..Len(nodes) : heap'[nodes[j]].state = heap[nodes[j]].state]_vars

\* C13, amended: removeRange on a collapsed range leaves the nodes and the
\* states that the node's Backspace handler, called without an event for
\* that offset pair, leaves; in a text node that is the node sequence and
\* every state as they were.
C13_CollapsedAsBackspace ==
  [][(/\ last'.op = "RemoveRange"
      /\ last'.r.startNodeIndex = last'.r.endNodeIndex
      /\ last'.r.startOffset = last'.r.endOffset) =>
       LET n == At(nodes, last'.r.startNodeIndex)
           b == Behave(World, n, "Backspace", last'.r, FALSE).w
       IN /\ err' = "none"
          /\ nodes' = b.nodes
          /\ \A j \in 1..Len(nodes') : heap'[nodes'[j]].state = b.heap[nodes'[j]].state
          /\ IsTextNode(World, n) =>
               /\ nodes' = nodes
               /\ \A j \in 1..Len(nodes) :
                    heap'[nodes[j]].state = heap[nodes[j]].state]_vars

\* C14: for the structural primitives, execute followed by cancel is the
\* identity on the node sequence. insertNode(surface, node, p) with
\* 0 <= p <= length puts the node at index p and its cancel removes exactly
\* that node; removeNode(surface, p) removes the node at p and its cancel
\* puts the same instance back at index p. The same holds when the cancel
\* is run by undo and the execute by redo on the sequence the command left.
C14_InsertRemove ==
  [][/\ last'.op = "InsertNode" =>
         LET cmd == stack'[cursor' + 1].cmd
         IN /\ cmd.type = "InsertNode" /\ cmd.node = next' /\ cmd.pos = last'.i
            /\ nodes' = SubSeq(nodes, 1, cmd.pos) \o <<cmd.node>>
                           \o SubSeq(nodes, cmd.pos + 1, Len(nodes))
            /\ ~Failed(Cancel(cmd, World'))
            /\ Cancel(cmd, World').nodes = nodes
     /\ last'.op = "RemoveNode" =>
         LET cmd == stack'[cursor' + 1].cmd
         IN /\ cmd.type = "RemoveNode" /\ cmd.node = nodes[last'.i + 1]
            /\ cmd.pos = last'.i
            /\ nodes' = SubSeq(nodes, 1, cmd.pos) \o SubSeq(nodes, cmd.pos + 2, Len(nodes))
            /\ ~Failed(Cancel(cmd, World'))
            /\ Cancel(cmd, World').nodes = nodes
     /\ (last'.op = "Undo" /\ canUndo(World)) =>
         LET cmd == stack[cursor + 1].cmd
         IN /\ (cmd.type = "InsertNode" /\ At(nodes, cmd.pos) = cmd.node) =>
                 nodes' = SubSeq(nodes, 1, cmd.pos)
                            \o SubSeq(nodes, cmd.pos + 2, Len(nodes))
            /\ (cmd.type = "RemoveNode" /\ ~heap[cmd.node].surface) =>
                 nodes' = SubSeq(nodes, 1, cmd.pos) \o <<cmd.node>>
                            \o SubSeq(nodes, cmd.pos + 1, Len(nodes))
     /\ (last'.op = "Redo" /\ canRedo(World)) =>
         LET cmd == stack[cursor + 2].cmd
         IN /\ (cmd.type = "RemoveNode" /\ At(nodes, cmd.pos) = cmd.node) =>
                 nodes' = SubSeq(nodes, 1, cmd.pos)
                            \o SubSeq(nodes, cmd.pos + 2, Len(nodes))
            /\ (cmd.type = "InsertNode" /\ ~heap[cmd.node].surface) =>
                 nodes' = SubSeq(nodes, 1, cmd.pos) \o <<cmd.node>>
                            \o SubSeq(nodes, cmd.pos + 1, Len(nodes))
    ]_vars

\* C15: cancelling an UpdateNode command puts the node's state back to
\* exactly the snapshot taken when the command was made, for every partial
\* update, one that adds a key the state did not have included, and also
\* when the cancel is run by undo after any number of undo/redo cycles.
C15_CancelRestores ==
  [][/\ (last'.op = "UpdateNode" /\ last'.pushed) =>
         LET cmd == stack'[cursor' + 1].cmd
         IN /\ cmd.type = "UpdateNode"
            /\ cmd.oldState = heap[cmd.node].state
            /\ Cancel(cmd, World').heap[cmd.node].state = cmd.oldState
     /\ (last'.op = "Undo" /\ canUndo(World)
           /\ stack[cursor + 1].cmd.type = "UpdateNode") =>
         heap'[stack[cursor + 1].cmd.node].state = stack[cursor + 1].cmd.oldState
    ]_vars

\* C16: the execute() of an UpdateNode command calls the node's render
\* exactly when rerenderOnExecute is true or the command has executed
\* before: the first execution with rerenderOnExecute = false renders
\* nothing, the first with true renders once, every redo renders once; and
\* every cancel renders once.
C16_Rerender ==
  [][/\ last'.op = "UpdateNode" =>
         LET cmd == stack'[cursor' + 1].cmd
         IN /\ cmd.type = "UpdateNode" /\ cmd.hasExecuted
            /\ last'.renders = IF cmd.rerender THEN <<cmd.node>> ELSE <<>>
     /\ (last'.op = "Redo" /\ canRedo(World)
           /\ stack[cursor + 2].cmd.type = "UpdateNode") =>
         last'.renders = <<stack[cursor + 2].cmd.node>>
     /\ (last'.op = "Undo" /\ canUndo(World)
           /\ stack[cursor + 1].cmd.type = "UpdateNode") =>
         last'.renders = <<stack[cursor + 1].cmd.node>>
    ]_vars

\* C17: every primitive command applies its effect once when it is made;
\* compose, composeArray and History.push call no execute(). So when a
\* handler run through Editor.execute has returned with a command pushed, the
\* execute() calls made are one per primitive of that command, in order, and
\* nothing was cancelled; a handler that returns without a command has
\* executed nothing; undo calls no execute(), and a redo calls the execute()
\* of each primitive of the redone command once.
C17_EagerOnce ==
  [][/\ (last'.pushed /\ err' = "none") =>
         log' = Called("execute", Steps(stack'[cursor' + 1].cmd))
     /\ (~last'.pushed /\ err' = "none" /\ last'.op # "Redo") =>
         \A i \in 1..Len(log') : log'[i].call # "execute"
     /\ (last'.op = "Redo" /\ canRedo(World) /\ err' = "none") =>
         log' = Called("execute", Steps(stack[cursor + 2].cmd))
    ]_vars

C19_HandlerKey ==
  [][(last'.op = "KeyDown" /\ sel.inside) =>
       last'.key = IF isCollapsed(sel) THEN last'.name
                   ELSE "Selection+" \o last'.name
    ]_vars

C22_Enter ==
  [][(/\ last'.op = "KeyDown" /\ last'.name = "Enter"
      /\ sel.inside /\ sel.caret /\ isCollapsed(sel)
      /\ IsTextNode(World, startNode(World, sel))
      /\ sel.startOffset <= getLength(World, startNode(World, sel))) =>
       LET i == sel.startNodeIndex
           o == sel.startOffset
           n == nodes[i + 1]
           t == heap[n].state.text
           m == At(nodes', i + 1)
       IN /\ err' = "none" /\ last'.ret = "true"
          /\ m # NoNode /\ next' = next + 1 /\ m = next'
          /\ nodes' = SubSeq(nodes, 1, i + 1) \o <<m>> \o SubSeq(nodes, i + 2, Len(nodes))
          /\ \A x \in 1..Len(nodes) : x # i + 1 => heap'[nodes[x]].state = heap[nodes[x]].state
          /\ IF o # Len(t)
               THEN /\ heap'[n].state.text = SubSeq(t, 1, o)
                    /\ heap'[m].state.text = SubSeq(t, o + 1, Len(t))
                    /\ heap'[m].variant = heap[n].variant
                    /\ heap'[m].level = heap[n].level
               ELSE /\ heap'[n].state = heap[n].state
                    /\ heap'[m].state.text = <<>>
                    /\ heap'[m].variant = "paragraph"
          /\ sel' = Range(TRUE, TRUE, i + 1, 0, i + 1, 0)
    ]_vars

\* C23: Backspace on a text node at index i > 0 with a caret at offset 0.
\* If the predecessor is a text node the node is merged into it: the
\* predecessor's text becomes its text followed by the node's, and the
\* node leaves the sequence. If the predecessor is an isolated node and the
\* node is empty, the node is removed. In both cases the other nodes are
\* kept and the selection becomes a caret at index i-1, at the length the
\* predecessor had before.
C23_BackspaceMerge ==
  [][(/\ last'.op = "KeyDown" /\ last'.name = "Backspace"
      /\ sel.inside /\ sel.caret /\ isCollapsed(sel)
      /\ sel.startOffset = 0 /\ sel.startNodeIndex > 0
      /\ IsTextNode(World, startNode(World, sel))
      /\ (IsTextNode(World, At(nodes, sel.startNodeIndex - 1))
            \/ getLength(World, startNode(World, sel)) = 0)) =>
       LET i == sel.startNodeIndex
           n == nodes[i + 1]
           prev == nodes[i]
           tn == heap[n].state.text
       IN /\ err' = "none" /\ last'.ret = "true"
          /\ nodes' = SubSeq(nodes, 1, i) \o SubSeq(nodes, i + 2, Len(nodes))
          /\ \A x \in 1..Len(nodes) :
               x \notin {i, i + 1} => heap'[nodes[x]].state = heap[nodes[x]].state
          /\ heap'[prev].variant = heap[prev].variant
          /\ IF IsTextNode(World, prev)
               THEN heap'[prev].state.text = heap[prev].state.text \o tn
               ELSE heap'[prev].state = heap[prev].state
          /\ sel' = Range(TRUE, TRUE, i - 1, getLength(World, prev),
                          i - 1, getLength(World, prev))
    ]_vars

\* C24: Backspace on a text node with a caret in any case but the merge and
\* the removal of C23 (caret at an offset > 0, caret at offset 0 of the
\* first node, or a node with text whose predecessor is an isolated node)
\* makes no command: the node sequence, every node's state and the History
\* are unchanged.
C24_BackspaceDeclines ==
  [][(/\ last'.op = "KeyDown" /\ last'.name = "Backspace"
      /\ sel.inside /\ sel.caret /\ isCollapsed(sel)
      /\ IsTextNode(World, startNode(World, sel))
      /\ sel.startOffset <= getLength(World, startNode(World, sel))
      /\ \/ sel.startOffset > 0
         \/ sel.startNodeIndex = 0
         \/ /\ ~IsTextNode(World, At(nodes, sel.startNodeIndex - 1))
            /\ getLength(World, startNode(World, sel)) > 0) =>
       /\ err' = "none" /\ last'.ret = "false" /\ ~last'.pushed
       /\ log' = <<>>
       /\ nodes' = nodes /\ heap' = heap /\ next' = next
       /\ stack' = stack /\ cursor' = cursor /\ pushes' = pushes
    ]_vars

\* C25: the Backspace of a text node called without an event on a range
\* [startOffset, endOffset) inside the node, startOffset < endOffset,
\* replaces the node's text t by t[0,startOffset) followed by
\* t[endOffset,length) through a single UpdateNode (endOffset may be the
\* length); removeRange on such a range does exactly this and changes no
\* other node.
C25_SliceInNode ==
  [][(/\ last'.op = "RemoveRange"
      /\ last'.r.startNodeIndex = last'.r.endNodeIndex
      /\ last'.r.startOffset < last'.r.endOffset
      /\ IsTextNode(World, startNode(World, last'.r))) =>
       LET r == last'.r
           n == startNode(World, r)
           t == heap[n].state.text
           slice == SubSeq(t, 1, r.startOffset) \o SubSeq(t, r.endOffset + 1, Len(t))
           m == Behave(World, n, "Backspace", r, FALSE)
       IN /\ ~Failed(m.w)
          /\ m.cmd.type = "UpdateNode" /\ m.cmd.node = n
          /\ m.cmd.update = TextState(slice)
          /\ m.w.nodes = nodes
          /\ m.w.heap[n].state = TextState(slice)
          /\ \A x \in NodeIds : x # n => m.w.heap[x] = heap[x]
          /\ m.w.log = Called("execute", Steps(m.cmd))
          /\ err' = "none" /\ last'.ret = "true"
          /\ Steps(stack'[cursor' + 1].cmd) = Steps(m.cmd)
          /\ log' = m.w.log /\ Len(log') = 1
          /\ nodes' = nodes
          /\ heap' = m.w.heap
    ]_vars

\* C26: a paste of clipboard text made of k+1 segments into a text node at
\* index i with the caret at offset o: the last segment is inserted into
\* node i's text at o; k new nodes holding the other segments in order are
\* inserted immediately after node i; the node count grows by exactly k and
\* the whole paste is one composed command.
C26_Paste ==
  [][(/\ last'.op = "Paste"
      /\ sel.inside /\ sel.caret /\ isCollapsed(sel)
      /\ IsTextNode(World, startNode(World, sel))
      /\ sel.startOffset <= getLength(World, startNode(World, sel))) =>
       LET i == sel.startNodeIndex
           o == sel.startOffset
           n == nodes[i + 1]
           t == heap[n].state.text
           clip == last'.clip
           k == Len(clip) - 1
       IN /\ err' = "none" /\ last'.ret = "true"
          /\ Len(nodes') = Len(nodes) + k
          /\ stack'[cursor' + 1].cmd.type = "Compound"
          /\ Len(Steps(stack'[cursor' + 1].cmd)) = k + 1
          /\ heap'[n].state.text =
               SubSeq(t, 1, o) \o clip[k + 1] \o SubSeq(t, o + 1, Len(t))
          /\ \A x \in 1..(i + 1) : nodes'[x] = nodes[x]
          /\ \A x \in (i + 2)..Len(nodes) : nodes'[x + k] = nodes[x]
          /\ \A x \in 1..k :
               /\ nodes'[i + 1 + x] > next
               /\ TextOf(heap'[nodes'[i + 1 + x]].state) = clip[x]
    ]_vars

\* C27: Backspace with a caret on an isolated node at index p replaces it
\* by an empty text node at the same index, as one command composed of the
\* removal and the insertion: the node count is unchanged, the other nodes
\* are kept, the caret is put at (p, 0), and one undo puts the same
\* isolated instance back at index p.
C27_IsolatedBackspace ==
  [][(/\ last'.op = "KeyDown" /\ last'.name = "Backspace"
      /\ sel.inside /\ sel.caret /\ isCollapsed(sel)
      /\ startNode(World, sel) # NoNode
      /\ ~IsTextNode(World, startNode(World, sel))) =>
       LET pos == sel.startNodeIndex
           n == nodes[pos + 1]
           cmd == stack'[cursor' + 1].cmd
           u == UndoButton_click(World')
       IN /\ err' = "none" /\ last'.ret = "true"
          /\ next' = next + 1
          /\ nodes' = [nodes EXCEPT ![pos + 1] = next']
          /\ heap'[next'].variant \in TextVariants
          /\ heap'[next'].state = TextState(<<>>)
          /\ \A x \in 1..Len(nodes) : heap'[nodes[x]].state = heap[nodes[x]].state
          /\ cmd.type = "Compound"
          /\ Steps(cmd) = <<[type |-> "RemoveNode", node |-> n, pos |-> pos],
                            [type |-> "InsertNode", node |-> next', pos |-> pos]>>
          /\ sel' = Range(TRUE, TRUE, pos, 0, pos, 0)
          /\ ~Failed(u) /\ u.nodes = nodes /\ u.cursor = cursor
          /\ u.heap[n].surface /\ u.heap[n].position = pos
    ]_vars

\* C28: the node sequence is never empty: the document the editor is loaded
\* with has at least one node, and after any sequence of clicks, Enter,
\* Backspace, Paste, removal of a selected range, type change with the heading
\* button, undo and redo, the sequence still holds at least one node.
C28_NonEmpty == Len(nodes) >= 1

\* C29: Document.fromJSON throws and returns no document when the input has
\* no `nodes` property, when `nodes` is not an array, or when a node record
\* names a type that is not in the node registry; otherwise it returns
\* without an exception. A document it returns holds one node per record, in
\* the order of the records: never a part of them.
C29_FromJSON ==
  [][last'.op = "Load" =>
       LET j == last'.json
           d == last'.doc
       IN /\ IF j.kind # "array"
                  \/ \E i \in 1..Len(j.items) : j.items[i].type \notin NodeTypes
               THEN err' # "none" /\ ~d.returned
               ELSE err' = "none" /\ d.returned
          /\ d.returned =>
                /\ Len(d.nodes) = Len(j.items)
                /\ \A i \in 1..Len(j.items) :
                      /\ d.nodes[i].variant = j.items[i].type
                      /\ d.nodes[i].text = j.items[i].text
  ]_vars

\* C30: on an input event, when the selection state spans more than one node
\* or its node is no text node, an Error is thrown, no command is executed
\* and the History is as it was; otherwise one UpdateNode command, of the
\* text node the selection state names and with the text read, is executed
\* once and pushed on the History.
C30_Input ==
  [][last'.op = "Input" =>
       IF ~InOneTextNode(World)
         THEN /\ err' = "Error"
              /\ log' = <<>>
              /\ stack' = stack /\ cursor' = cursor /\ pushes' = pushes
         ELSE /\ err' = "none" /\ last'.pushed
              /\ pushes' = pushes + 1
              /\ cursor' = cursor + 1 /\ Len(stack') = cursor' + 1
              /\ stack'[cursor' + 1].cmd.type = "UpdateNode"
              /\ stack'[cursor' + 1].cmd.node = startNode(World, sel)
              /\ stack'[cursor' + 1].cmd.update = [text |-> last'.text]
              /\ Len(log') = 1
              /\ log'[1] = [call |-> "execute", type |-> "UpdateNode",
                            node |-> startNode(World, sel), pos |-> -1]
  ]_vars

\* C31: after every selection update that ends without an exception and finds
\* the selection inside the surface (a mouseup, a keyup, the update that
\* follows a pushed command, an undo or a redo), the selection state has
\* startNodeIndex <= endNodeIndex, startOffset <= endOffset when the indices
\* are equal, and caret true exactly when the start and the end have the same
\* index and the same offset.
C31_RangeOrdered ==
  [][(/\ last'.op \in {"Select", "KeyUp", "Undo", "Redo"} \/ last'.pushed
      /\ err' = "none" /\ sel'.inside) =>
       /\ sel'.startNodeIndex <= sel'.endNodeIndex
       /\ sel'.startNodeIndex = sel'.endNodeIndex => sel'.startOffset <= sel'.endOffset
       /\ sel'.caret <=> (/\ sel'.startNodeIndex = sel'.endNodeIndex
                          /\ sel'.startOffset = sel'.endOffset)
  ]_vars

C33_Delegatee ==
  [][/\ (last'.op = "MouseUp" /\ reg'.inside) =>
          /\ reg'.anchor = reg'.focus => reg'.surface = reg'.anchor
          /\ reg'.anchor # reg'.focus => reg'.surface = Mother
          /\ reg'.handled = reg'.surface
     /\ last'.op = "Dispatch" =>
          /\ reg.inside => reg'.target = reg.surface
          /\ ~reg.inside => reg'.target = NoSurface
  ]_vars

C35_HeadingSplit ==
  [][(\/ /\ last'.op = "Split"
         /\ IsTextNode(World, At(nodes, last'.i))
         /\ heap[At(nodes, last'.i)].variant = "heading"
         /\ last'.k <= Len(TextAt(World, last'.i))
      \/ /\ last'.op = "KeyDown" /\ last'.name = "Enter"
         /\ sel.inside /\ sel.caret /\ isCollapsed(sel)
         /\ IsTextNode(World, startNode(World, sel))
         /\ heap[startNode(World, sel)].variant = "heading"
         /\ sel.startOffset < getLength(World, startNode(World, sel))) =>
       LET i == IF last'.op = "Split" THEN last'.i ELSE sel.startNodeIndex
           n == At(nodes, i)
           m == At(nodes', i + 1)
       IN /\ err' = "none" /\ last'.ret = "true"
          /\ At(nodes', i) = n /\ Len(nodes') = Len(nodes) + 1
          /\ m # NoNode /\ m = next' /\ next' = next + 1
          /\ heap'[n].variant = "heading" /\ heap'[n].level = heap[n].level
          /\ heap'[m].variant = "heading" /\ heap'[m].level = heap[n].level
     ]_vars

\* C36: Enter on a range from (s, so) to (e, eo) that is not collapsed and
\* whose start node has an Enter handler pushes one composed command of the
\* range removal and the start node's Enter; afterwards node s holds the
\* start node's text before so and node s+1 the end node's text from eo on,
\* and the cancel() that an undo runs ends without an exception and brings
\* back the node sequence and every state as they were before the key.
C36_SelectionEnter ==
  [][(/\ last'.op = "KeyDown" /\ last'.name = "Enter"
      /\ sel.inside /\ ~sel.caret /\ ~isCollapsed(sel)
      /\ ValidRange(World, sel.startNodeIndex, sel.startOffset,
                    sel.endNodeIndex, sel.endOffset)
      /\ HasBehavior(World, startNode(World, sel), "Enter")) =>
       LET cmd == StackAt(World', cursor').cmd
           c == Cancel(cmd, World')
       IN /\ err' = "none" /\ last'.ret = "true" /\ last'.pushed
          /\ cmd.type = "Compound" /\ Len(cmd.commands) = 2
          /\ TextAt(World', sel.startNodeIndex) =
               SubSeq(TextAt(World, sel.startNodeIndex), 1, sel.startOffset)
          /\ TextAt(World', sel.startNodeIndex + 1) =
               SubSeq(TextAt(World, sel.endNodeIndex), sel.endOffset + 1,
                      Len(TextAt(World, sel.endNodeIndex)))
          /\ ~Failed(c) /\ c.nodes = nodes /\ Doc(c) = Doc(World)
     ]_vars

\* The texts of the nodes from index i on, one after the other.
RECURSIVE TextsFrom(_, _)
TextsFrom(w, i) ==
  IF i >= Len(w.nodes) THEN <<>> ELSE TextAt(w, i) \o TextsFrom(w, i + 1)

\* C37: Enter at a caret in a text node makes the sequence one node longer
\* and leaves the texts of all nodes, read in sequence order, the same text;
\* every node but the one at the caret keeps its place in the order, its
\* class and its state, and the one new instance stands right after the
\* caret's node.
C37_EnterKeepsText ==
  [][(/\ last'.op = "KeyDown" /\ last'.name = "Enter"
      /\ sel.inside /\ sel.caret /\ isCollapsed(sel)
      /\ IsTextNode(World, startNode(World, sel))
      /\ sel.startOffset <= getLength(World, startNode(World, sel))) =>
       /\ err' = "none"
       /\ Len(nodes') = Len(nodes) + 1
       /\ TextsFrom(World', 0) = TextsFrom(World, 0)
       /\ next' = next + 1
       /\ nodes' = SpliceIn(nodes, sel.startNodeIndex + 1, next')
       /\ \A x \in 1..Len(nodes) :
            x # sel.startNodeIndex + 1 =>
              /\ heap'[nodes[x]].state = heap[nodes[x]].state
              /\ heap'[nodes[x]].variant = heap[nodes[x]].variant
              /\ heap'[nodes[x]].level = heap[nodes[x]].level
              /\ heap'[nodes[x]].surface
     ]_vars

\* C38: a Backspace at a caret in a text node whose handler returns no
\* command leaves the host's selection and Selection#state as they were.
C38_NoCommandNoMove ==
  [][(/\ last'.op = "KeyDown" /\ last'.name = "Backspace"
      /\ sel.inside /\ sel.caret /\ isCollapsed(sel)
      /\ IsTextNode(World, startNode(World, sel))
      /\ sel.startOffset <= getLength(World, startNode(World, sel))
      /\ err' = "none" /\ ~last'.pushed) =>
       /\ docsel' = docsel
       /\ sel' = sel
     ]_vars

\* C40: after every Selection#update at most one surface's tracker is
\* inside; when Selection#state is inside it is the tracker of the surface
\* chosen to handle the selection, and otherwise no tracker is inside. The
\* update has called end() on the tracker of the surface that handled the
\* selection before, when another surface takes over and when the selection
\* leaves the editor.
C40_OneTracker ==
  [][last'.op = "MouseUp" =>
       /\ \A a \in SurfaceIds, b \in SurfaceIds :
            (reg'.trackers[a] /\ reg'.trackers[b]) => a = b
       /\ reg'.inside => reg'.trackers[reg'.surface]
       /\ ~reg'.inside => \A a \in SurfaceIds : ~reg'.trackers[a]
       /\ (reg.inside /\ (~reg'.inside \/ reg'.surface # reg.surface)) =>
            /\ reg.surface \in reg'.ended
            /\ ~reg'.trackers[reg.surface]
  ]_vars

\* C39: after every Selection#update that ends without an exception, the
\* nodes of the sequence that have got selectionStart() and no
\* selectionEnd() since are the nodes at the indices of the current range,
\* and none when the selection is not inside.
C39_NotifiedInRange ==
  [][(/\ last'.op \in {"Select", "KeyUp", "Undo", "Redo"} \/ last'.pushed
      /\ err' = "none") =>
       \A i \in 1..Len(nodes') :
         nodes'[i] \in selected' <=> isInSelection(sel', i - 1)
  ]_vars

\* ---------------------------------------------------------- reached cases
\* C2: a redo has brought the cursor back to the last of two entries.
C2_Reached ==
  last.op = "Redo" /\ last.redone # 0 /\ Len(stack) = 2 /\ cursor = Len(stack) - 1

\* C3: a push after two undos erased both undone commands, the second of
\* which lay beyond the entry that the push overwrote.
C3_Reached == last.pushed /\ cursor = 0 /\ pushes = 3 /\ dropped = {1, 2}

\* C8: a heading was split strictly inside its text.
C8_Reached ==
  /\ last.op = "Split" /\ last.ret = "true"
  /\ last.k > 0 /\ last.k < Len(last.text)
  /\ heap[At(nodes, last.i)].variant = "heading"

\* C9: two non-empty texts were merged.
C9_Reached ==
  /\ last.op = "Merge" /\ last.ret = "true" /\ last.chain = ""
  /\ last.text # <<>> /\ Len(TextAt(World, last.i)) > Len(last.text)

\* C10: a text was split strictly inside and merged again.
C10_Reached ==
  /\ last.chain = "split-merge" /\ last.ret = "true"
  /\ last.k > 0 /\ last.k < Len(last.text)

\* C11: a range from inside a heading over a whole node to inside a third
\* text node was removed; one node with a letter of each end is left.
C11_Reached ==
  /\ last.op = "RemoveRange" /\ last.ret = "true"
  /\ last.r.startNodeIndex = 0 /\ last.r.endNodeIndex = 2
  /\ last.r.startOffset = 1 /\ last.r.endOffset = 1
  /\ Len(nodes) = 1 /\ heap[nodes[1]].variant = "heading"
  /\ TextAt(World, 0) = <<Alphabet[1], Alphabet[2 * MaxRangeLen + 2]>>

\* C13: removeRange was called on a collapsed range inside a text.
C13_Reached ==
  /\ last.op = "RemoveRange" /\ last.ret = "true"
  /\ last.r.startNodeIndex = last.r.endNodeIndex
  /\ last.r.startOffset = 1 /\ last.r.endOffset = 1
  /\ Len(TextAt(World, last.r.startNodeIndex)) = 2

\* C14: a node was removed, another inserted at the front of what was left,
\* and the insertion has been undone.
C14_Reached ==
  /\ last.op = "Undo" /\ err = "none" /\ cursor = 0 /\ Len(stack) = 2
  /\ stack[1].cmd.type = "RemoveNode" /\ stack[2].cmd.type = "InsertNode"
  /\ stack[2].cmd.pos = 0 /\ Len(nodes) = 1
  /\ ~heap[stack[2].cmd.node].surface

\* C16: an update made with rerenderOnExecute = false has been undone and
\* redone, and the redo has rendered the node.
C16_Reached ==
  /\ last.op = "Redo" /\ err = "none" /\ cursor = 0
  /\ stack[1].cmd.type = "UpdateNode" /\ ~stack[1].cmd.rerender
  /\ last.renders = <<stack[1].cmd.node>>

\* C17: a key's handler has returned a command composed of three or more
\* primitives, which was pushed.
C17_Reached ==
  /\ last.op = "KeyDown" /\ last.pushed /\ err = "none"
  /\ stack[cursor + 1].cmd.type = "Compound"
  /\ Len(log) >= 3
  /\ \E i \in 1..Len(log) : log[i].type = "InsertNode"

\* C19: Backspace was pressed on a range over two nodes and the handler
\* found under "Selection+Backspace" has made a command.
C19_Reached ==
  /\ last.op = "KeyDown" /\ last.name = "Backspace"
  /\ last.key = "Selection+Backspace" /\ last.pushed /\ err = "none"

C22_Reached ==
  /\ last.op = "KeyDown" /\ last.name = "Enter" /\ last.ret = "true"
  /\ last.called = "node" /\ err = "none"
  /\ sel = Range(TRUE, TRUE, 1, 0, 1, 0)
  /\ heap[nodes[1]].variant = "heading" /\ heap[nodes[1]].state.text # <<>>
  /\ heap[nodes[2]].variant = "paragraph" /\ heap[nodes[2]].state.text = <<>>
  /\ nodes[2] = next

\* C23: Backspace at the start of a text node with text has merged it into
\* a predecessor with text, and the caret sits between the two texts.
C23_Reached ==
  /\ last.op = "KeyDown" /\ last.name = "Backspace" /\ last.ret = "true"
  /\ err = "none" /\ Len(nodes) = 1
  /\ IsTextNode(World, nodes[1])
  /\ Len(heap[nodes[1]].state.text) = 2 * MaxCaretLen
  /\ sel = Range(TRUE, TRUE, 0, MaxCaretLen, 0, MaxCaretLen)

\* C24: Backspace was pressed at the start of a node with text that follows
\* an isolated node, with a command on the stack, and nothing was made.
C24_Reached ==
  /\ last.op = "KeyDown" /\ last.name = "Backspace" /\ last.ret = "false"
  /\ last.called = "node" /\ err = "none" /\ Len(stack) = 1
  /\ Len(nodes) >= 2
  /\ heap[nodes[1]].variant = "isolated"
  /\ IsTextNode(World, nodes[2])
  /\ getLength(World, nodes[2]) > 0
  /\ sel.startNodeIndex = 1 /\ sel.startOffset = 0

\* C25: removeRange has removed the last character of a text of two
\* characters that stands between two other nodes.
C25_Reached ==
  /\ last.op = "RemoveRange" /\ last.ret = "true" /\ err = "none"
  /\ last.r.startNodeIndex = 1 /\ last.r.endNodeIndex = 1
  /\ last.r.startOffset = 1 /\ last.r.endOffset = MaxRangeLen
  /\ Len(nodes) = 3 /\ IsTextNode(World, nodes[2])
  /\ heap[nodes[2]].state.text = <<Alphabet[MaxRangeLen + 1]>>

\* C27: Backspace on an isolated node that stands first of two nodes was
\* undone: the isolated instance is back and the paragraph that replaced
\* it is detached.
C27_Reached ==
  /\ last.op = "Undo" /\ err = "none" /\ cursor = -1 /\ Len(stack) = 1
  /\ Steps(stack[1].cmd) = <<[type |-> "RemoveNode", node |-> nodes[1], pos |-> 0],
                             [type |-> "InsertNode", node |-> next, pos |-> 0]>>
  /\ Len(nodes) = 2
  /\ heap[nodes[1]].variant = "isolated" /\ ~heap[next].surface

\* C29: a document of two records was loaded, the first of a class of the
\* registry and the second not: an exception and no document.
C29_Reached ==
  /\ last.op = "Load" /\ err # "none" /\ ~last.doc.returned
  /\ last.json.kind = "array" /\ Len(last.json.items) = 2
  /\ last.json.items[1].type \in NodeTypes
  /\ last.json.items[2].type \notin NodeTypes

\* C30: an input event with the selection over two nodes has thrown, after
\* one that was reconciled with a command.
C30_Reached ==
  /\ last.op = "Input" /\ err = "Error"
  /\ ~isInSameNode(sel)
  /\ Len(stack) = 1 /\ cursor = 0 /\ stack[1].cmd.type = "UpdateNode"
  /\ TextOf(heap[stack[1].cmd.node].state) = <<"x">>

\* C31: an update found a range from the first node to the second, both
\* offsets 0, after a command was pushed and undone.
C31_Reached ==
  /\ last.op = "Select" /\ err = "none" /\ sel.inside /\ ~sel.caret
  /\ sel.startNodeIndex = 0 /\ sel.endNodeIndex = 1
  /\ sel.startOffset = 0 /\ sel.endOffset = 0
  /\ Len(stack) = 1 /\ cursor = -1

C33_Reached ==
  /\ last.op = "Dispatch" /\ reg.target = Mother
  /\ reg.inside /\ reg.anchor = 1 /\ reg.focus = 2

\* C35: Enter inside the text of a heading of a level other than 1 left two
\* headings of that level.
C35_Reached ==
  /\ last.op = "KeyDown" /\ last.name = "Enter" /\ last.ret = "true"
  /\ sel.inside /\ sel.startNodeIndex > 0
  /\ heap[At(nodes, sel.startNodeIndex)].variant = "heading"
  /\ heap[At(nodes, sel.startNodeIndex)].level > 1
  /\ heap[At(nodes, sel.startNodeIndex - 1)].variant = "heading"
  /\ heap[At(nodes, sel.startNodeIndex - 1)].level = heap[At(nodes, sel.startNodeIndex)].level
  /\ heap[At(nodes, sel.startNodeIndex)].state.text # <<>>

\* C37: Enter was pressed between the two characters of the first of two
\* text nodes.
C37_Reached ==
  /\ last.op = "KeyDown" /\ last.name = "Enter" /\ last.ret = "true"
  /\ Len(nodes) = 3 /\ sel.startNodeIndex = 1
  /\ Len(TextAt(World, 0)) = 1 /\ Len(TextAt(World, 1)) = 1
  /\ Len(TextAt(World, 2)) = 2 /\ Len(stack) = 1

\* C40: the selection went from one child surface into the other child
\* surface, and the first one's tracker was ended.
C40_Reached ==
  /\ last.op = "MouseUp" /\ reg.inside /\ reg.surface = 2
  /\ reg.ended = {1} /\ reg.trackers[2] /\ ~reg.trackers[1]
====
